---- MODULE Spec2Model ----
(***************************************************************************)
(* The capsules runtime supervisor (capsules_runtime/src/main.rs,          *)
(* deamon_run): the process table, the control socket and the main loop    *)
(* (service one datagram, reap and respawn, refresh metrics, sleep).       *)
(*                                                                         *)
(* Option<T> is modelled as a sequence: <<>> is None, <<v>> is Some(v).    *)
(* An ExitStatus is the Option of its exit code: <<0>>, <<1>>, or <<>> for *)
(* a child ended by a signal.                                              *)
(* An Instant is kept as the time elapsed since it was taken, in ms; it is *)
(* only ever compared with the process's restart delay, so it saturates    *)
(* there.                                                                  *)
(*                                                                         *)
(* The packaged binary (capsules_compiler/src/main.rs, run; and            *)
(* capsules_runtime/src/main.rs, get_data): a file is a sequence of bytes  *)
(* 0..255. The 8-byte length field and the 64-bit offsets computed from it *)
(* are narrowed to LenSize bytes, keeping the code's casts and wrap-around.*)
(***************************************************************************)
EXTENDS Integers, Sequences, FiniteSets, TLC

\* ----------------------------------------------------------------- bounds
MaxRestarts == 2
MaxPid == 2
\* bytes of the footer's length field and of every offset (u64, i64: 8)
LenSize == 2
\* bytes of a serialized capsule
MaxInput == 2

\* ------------------------------------------------------ program constants
DefaultRestartDelay == 10
SleepMs == 10
NoExitCode == -9999
MagicSize == 8
SaltSize == 16
NonceSize == 12
TagSize == 16
HeaderSize == 28

\* a restart_delay a capsule may set, longer than the default
LongDelay == 2 * DefaultRestartDelay

\* -------------------------------------------------------------- universes
Names == {"a", "b"}
UnknownName == "x"
ReqNames == Names \cup {UnknownName}
Clients == {"c1", "c2"}
Pids == 1..MaxPid
ExitCodes == {0, 1}
ExitStatuses == {<<c>> : c \in ExitCodes} \cup {<<>>}

None == <<>>
Some(v) == <<v>>
UnwrapOr(opt, d) == IF opt = <<>> THEN d ELSE opt[1]
Min(x, y) == IF x < y THEN x ELSE y

\* capsules_lib: enum RestartPolicy
RestartPolicy == {"Never", "Always", "OnFailure"}

\* capsules_lib: struct Process, the fields the supervisor loop reads
Process == [restart_policy : {None} \cup {Some(p) : p \in RestartPolicy},
            restart_delay : {None, Some(LongDelay)}]

\* capsules_lib: enum Status
Starting == <<"Starting">>
Running(pid) == <<"Running", pid>>
Exited(code) == <<"Exited", code>>
Killed == <<"Killed">>

\* capsules_lib: enum CliMessage, as deamon_run matches it; Garbage is a
\* datagram that from_bytes::<CliMessage> rejects
Kill(name) == [type |-> "Kill", name |-> name]
Restart(name) == [type |-> "Restart", name |-> name]
List == [type |-> "List", name |-> ""]
KillAll == [type |-> "KillAll", name |-> ""]
TareDown == [type |-> "TareDown", name |-> ""]
Status == [type |-> "Status", name |-> ""]
KillDeamon == [type |-> "KillDeamon", name |-> ""]
CliMessage ==
    {Kill(n) : n \in ReqNames} \cup {Restart(n) : n \in ReqNames}
    \cup {List, KillAll, TareDown, Status, KillDeamon}
Garbage == [type |-> "Garbage", name |-> ""]
Datagrams == CliMessage \cup {Garbage}

\* capsules_lib: enum SupervisorResp
RespOk == [type |-> "Ok"]
RespError(e) == [type |-> "Error", error |-> e]
RespList(entries) == [type |-> "List", entries |-> entries]
RespVersion == [type |-> "Version"]
InternalError == <<"InternalError">>
ProcessNotFound(name) == <<"ProcessNotFound", name>>

VARIABLES
    capsule,    \* the declared processes: name -> Process
    pc,         \* position of deamon_run: "load", "spawn", "recv", "reap", "metrics", "done"
    todo,       \* declared processes the initial spawn loop has not visited
    table,      \* HashMap<String, RunningProcess>
    root,       \* whether the extraction root directory exists
    clients,    \* the clients that run commands against this supervisor
    inflight,   \* client -> Option<datagram> queued on the supervisor socket
    serviced,   \* what recv_from gave the last step of deamon_run: Option<<from, msg>>
    sent,       \* the datagrams that step sent: <<to, resp>>
    respawned,  \* the children the last reap loop started: <<name, inc>>
    cli,        \* the last client command run without a supervisor: Option<<cmd, result>>
    exe,        \* the bytes of the executable file
    env_password, \* __SUPERVISOR_PASSWORD__: Option<password>
    packed,     \* what the packager wrote into exe, while exe is as written: Option
    got,        \* what get_data did on exe: Option
    sealed,     \* what encrypt was given and returned, and the ciphertext as it
                \* is now: Option
    opened,     \* what decrypt was given and returned: Option
    source,     \* the Capsule the packager read: its files, and per process
                \* its cwd and files
    bundle,     \* the Capsule the packager serialized: Option
    disk,       \* the files on the supervisor's host: path -> bytes
    current_dir, \* the directory the supervisor was started in
    start_error \* the error deamon_run returned before its loop: Option

supervisor == <<capsule, clients, pc, todo, table, root, inflight, serviced, sent, respawned>>
binary == <<exe, env_password, packed, got>>
crypto == <<sealed, opened>>
startup == <<source, bundle, current_dir, start_error>>
vars == <<capsule, clients, pc, todo, table, root, inflight, serviced, sent, respawned,
          cli, exe, env_password, packed, got, sealed, opened,
          source, bundle, disk, current_dir, start_error>>

\* ------------------------------------------------- std::process::Child
\* A child handle: its pid, where the OS process is ("alive"; "dying": a
\* SIGKILL is on its way; "zombie": exited, not yet waited for; "reaped":
\* waited for, the ExitStatus cached in the handle) and its ExitStatus.
NewChild(pid) == [pid |-> pid, st |-> "alive", code |-> None]

\* Child::kill. A handle already waited for returns Ok without a signal
\* (std since 1.72; the sysinfo API used needs a later toolchain); on any
\* other handle the signal is sent, and the OS may refuse it.
KillResults(h) == IF h.st = "reaped" THEN {TRUE} ELSE {TRUE, FALSE}

\* The handle after a kill that returned Ok; prompt: the child is gone by the
\* time the call after it looks.
Killing(h, prompt) ==
    IF h.st = "alive"
    THEN IF prompt THEN [h EXCEPT !.st = "zombie", !.code = None]
                   ELSE [h EXCEPT !.st = "dying"]
    ELSE h

\* Child::try_wait: the returned Option<ExitStatus>, and the handle after it.
TryWait(h) == IF h.st \in {"zombie", "reaped"} THEN Some(h.code) ELSE None
Waited(h) == IF h.st = "zombie" THEN [h EXCEPT !.st = "reaped"] ELSE h

\* ExitStatus::success and ExitStatus::code().unwrap_or(-9999)
Success(status) == status = Some(0)
\* faulty variant: a missing exit code is reported as 0
CodeOf_Zero(status) == UnwrapOr(status, 0)
CodeOf(status) == UnwrapOr(status, NoExitCode)

\* pids of children the OS still holds (a reaped pid is free for reuse)
LivePids(t) == {t[n].child.pid : n \in {m \in DOMAIN t : t[m].child.st # "reaped"}}
FreePids(t) == Pids \ LivePids(t)

\* ----------------------------------------------- the packaged binary
Byte == 0..255

\* b"SETENV_P" and b"SETENV_E"
MAGIC_NUMBER_PLAIN == <<83, 69, 84, 69, 78, 86, 95, 80>>
MAGIC_NUMBER_ENCRIPTED == <<83, 69, 84, 69, 78, 86, 95, 69>>
\* the name under which capsules_compiler imports the second
MAGIC_NUMBER_ENCRYPTED == <<83, 69, 84, 69, 78, 86, 95, 69>>
FOOTER_SIZE == LenSize + MagicSize

\* the values of an unsigned and the largest value of a signed integer of
\* LenSize bytes, and the cast `as i64`
Modulus == 256 ^ LenSize
MaxSigned == (Modulus \div 2) - 1
AsSigned(n) == IF n > MaxSigned THEN n - Modulus ELSE n

\* u64::to_le_bytes and u64::from_le_bytes
ToLeBytes_BigEndian(n) == [i \in 1..LenSize |-> (n \div (256 ^ (LenSize - i))) % 256]
ToLeBytes(n) == [i \in 1..LenSize |-> (n \div (256 ^ (i - 1))) % 256]

RECURSIVE FromLeBytes(_)
FromLeBytes(bytes) ==
    IF bytes = <<>> THEN 0 ELSE bytes[1] + 256 * FromLeBytes(Tail(bytes))

\* Result<T, Error> and a panic
Ok(v) == [kind |-> "Ok", value |-> v]
Err(e) == [kind |-> "Err", value |-> e]
Panic == [kind |-> "Panic", value |-> <<>>]
NoData == <<"NoData">>
InvalidPassword == <<"InvalidPassword">>
InvalidDataFormat == <<"InvalidDataFormat">>

\* File::seek(SeekFrom::End(offset)) on a file of `size` bytes: the new
\* position, or Err for a position that is negative or overflows
SeekEnd(size, offset) ==
    IF size + offset < 0 \/ size + offset > MaxSigned
    THEN Err(NoData)
    ELSE Ok(size + offset)

\* File::read_exact of n bytes at position pos
ReadExact(file, pos, n) ==
    IF n = 0 THEN Ok(<<>>)
    ELSE IF pos + n > Len(file) THEN Err(NoData)
    ELSE Ok(SubSeq(file, pos + 1, pos + n))

\* ------------------------------------------------- encrypt and decrypt
\* The passwords told apart, and what the random generator may return
Passwords == {"s3cret", "wrong"}
Salts == {[i \in 1..SaltSize |-> 0], [i \in 1..SaltSize |-> 7]}
Nonces == {[i \in 1..NonceSize |-> 0], [i \in 1..NonceSize |-> 9]}

RECURSIVE Sum(_)
Sum(bytes) == IF bytes = <<>> THEN 0 ELSE bytes[1] + Sum(Tail(bytes))

\* derive_key: PBKDF2 is taken as a function of password and salt that
\* tells the passwords of the model apart
DeriveKey(password, salt) ==
    ((IF password = "s3cret" THEN 1 ELSE 2) + 3 * Sum(salt)) % 256

\* Aes256Gcm: the body is the plaintext under a key stream of the key and
\* the nonce, followed by the tag. The tag is taken as one-to-one in key,
\* nonce and plaintext (no two of them share a tag), which holds for the
\* plaintexts of up to TagSize - 3 bytes the model encrypts.
KeyStream(key, nonce) == (key + 5 * Sum(nonce)) % 256
Tag(key, nonce, plaintext) ==
    [i \in 1..TagSize |->
        IF i = 1 THEN key
        ELSE IF i = 2 THEN Sum(nonce) % 256
        ELSE IF i = 3 THEN Len(plaintext) % 256
        ELSE IF i - 3 <= Len(plaintext) THEN plaintext[i - 3]
        ELSE 0]

\* encrypt, with the salt and nonce the random generator gave: (salt,
\* nonce, ciphertext)
Encrypt(password, plaintext, salt, nonce) ==
    LET key == DeriveKey(password, salt)
    IN  <<salt, nonce,
          [i \in 1..Len(plaintext) |-> (plaintext[i] + KeyStream(key, nonce)) % 256]
              \o Tag(key, nonce, plaintext)>>

\* faulty variant: a ciphertext too short to hold a tag is reported as a
\* malformed payload
Decrypt_ShortIsFormat(password, salt, nonce, ciphertext) ==
    IF Len(ciphertext) < TagSize
    THEN Err(InvalidDataFormat)
    ELSE LET key == DeriveKey(password, salt)
             n == Len(ciphertext) - TagSize
             plaintext == [i \in 1..n |-> (ciphertext[i] + 256 - KeyStream(key, nonce)) % 256]
         IN  IF SubSeq(ciphertext, n + 1, n + TagSize) = Tag(key, nonce, plaintext)
             THEN Ok(plaintext)
             ELSE Err(InvalidPassword)

\* decrypt: Ok(plaintext), or InvalidPassword when the tag does not match
Decrypt(password, salt, nonce, ciphertext) ==
    IF Len(ciphertext) < TagSize
    THEN Err(InvalidPassword)
    ELSE LET key == DeriveKey(password, salt)
             n == Len(ciphertext) - TagSize
             plaintext == [i \in 1..n |-> (ciphertext[i] + 256 - KeyStream(key, nonce)) % 256]
         IN  IF SubSeq(ciphertext, n + 1, n + TagSize) = Tag(key, nonce, plaintext)
             THEN Ok(plaintext)
             ELSE Err(InvalidPassword)

\* ------------------------------------------------ capsules_compiler: run
\* the bytes run writes after the runtime: the serialized capsule, or salt,
\* nonce and ciphertext appended to one another, with the magic it records
Payload(input_bytes, password, salt, nonce) ==
    IF password = None
    THEN <<input_bytes, MAGIC_NUMBER_PLAIN>>
    ELSE LET e == Encrypt(password[1], input_bytes, salt, nonce)
         IN  <<e[1] \o e[2] \o e[3], MAGIC_NUMBER_ENCRYPTED>>

\* the four write_all calls
Written(runtime, input_bytes, magic_number) ==
    runtime \o input_bytes \o ToLeBytes(Len(input_bytes) % Modulus) \o magic_number

Run(runtime, input_bytes, password, salt, nonce) ==
    LET p == Payload(input_bytes, password, salt, nonce)
    IN  Written(runtime, p[1], p[2])

\* ------------------------------------------- capsules_runtime: get_data
\* What get_data did: its result, the bytes it read into `data` (None if it
\* did not get that far) and whether it called decrypt
Got(result, read, decrypted) ==
    [result |-> result, read |-> read, decrypted |-> decrypted]

\* `-FOOTER_SIZE - (data_len as i64)`: the arithmetic overflows for the
\* largest lengths, which panics in a build with overflow checks and wraps
\* around in one without
DataStartOffsets(data_len) ==
    LET offset == (0 - FOOTER_SIZE) - AsSigned(data_len)
    IN  IF offset < 0 - MaxSigned - 1
        THEN {Panic, Ok(offset + Modulus)}
        ELSE {Ok(offset)}

\* get_data after the payload is in `data`
Unwrap_DecryptsUnset(magic, data, password) ==
    IF magic = MAGIC_NUMBER_PLAIN THEN Got(Ok(data), Some(data), FALSE)
    ELSE IF Len(data) < HeaderSize THEN Got(Err(InvalidDataFormat), Some(data), FALSE)
    ELSE Got(Decrypt(UnwrapOr(password, ""),
                     SubSeq(data, 1, SaltSize),
                     SubSeq(data, SaltSize + 1, HeaderSize),
                     SubSeq(data, HeaderSize + 1, Len(data))),
             Some(data), TRUE)
Unwrap(magic, data, password) ==
    IF magic = MAGIC_NUMBER_PLAIN THEN Got(Ok(data), Some(data), FALSE)
    ELSE IF Len(data) < HeaderSize THEN Got(Err(InvalidDataFormat), Some(data), FALSE)
    ELSE IF password = None THEN Got(Err(InvalidPassword), Some(data), FALSE)
    ELSE Got(Decrypt(password[1],
                     SubSeq(data, 1, SaltSize),
                     SubSeq(data, SaltSize + 1, HeaderSize),
                     SubSeq(data, HeaderSize + 1, Len(data))),
             Some(data), TRUE)

\* get_data from the second seek on
ReadData(file, magic, data_len, offset, password) ==
    IF offset.kind = "Panic" THEN Got(Panic, None, FALSE)
    ELSE LET pos == SeekEnd(Len(file), offset.value)
         IN  IF pos.kind = "Err" THEN Got(Err(NoData), None, FALSE)
             \* vec![0u8; data_len as usize]: more than isize::MAX bytes
             ELSE IF data_len > MaxSigned THEN Got(Panic, None, FALSE)
             ELSE LET data == ReadExact(file, pos.value, data_len)
                  IN  IF data.kind = "Err" THEN Got(Err(NoData), None, FALSE)
                      ELSE Unwrap(magic, data.value, password)

\* get_data on the executable `file`, with __SUPERVISOR_PASSWORD__ set to
\* `password` or unset: the outcomes the builds of the runtime can give
GetData(file, password) ==
    IF SeekEnd(Len(file), 0 - FOOTER_SIZE).kind = "Err"
    THEN {Got(Err(NoData), None, FALSE)}
    ELSE LET footer_bytes == SubSeq(file, Len(file) - FOOTER_SIZE + 1, Len(file))
             magic == SubSeq(footer_bytes, LenSize + 1, FOOTER_SIZE)
             data_len == FromLeBytes(SubSeq(footer_bytes, 1, LenSize))
         IN  IF magic # MAGIC_NUMBER_PLAIN /\ magic # MAGIC_NUMBER_ENCRIPTED
             THEN {Got(Err(NoData), None, FALSE)}
             ELSE {ReadData(file, magic, data_len, offset, password) :
                      offset \in DataStartOffsets(data_len)}

\* ------------------------------------------- the client commands (cli_*)
SupervisorCantBeFound == <<"SupervisorCantBeFound">>
CouldNotKillProcess(name) == <<"CouldNotKillProcess", name>>

ProcList == [cmd |-> "proc list", name |-> ""]
ProcKill(name) == [cmd |-> "proc kill", name |-> name]
ProcRestart(name) == [cmd |-> "proc restart", name |-> name]
ProcKillAll == [cmd |-> "proc kill-all", name |-> ""]
DeamonTareDown == [cmd |-> "deamon tare-down", name |-> ""]
DeamonKill == [cmd |-> "deamon kill", name |-> ""]
DeamonStatus == [cmd |-> "deamon status", name |-> ""]
Commands ==
    {ProcKill(n) : n \in ReqNames} \cup {ProcRestart(n) : n \in ReqNames}
    \cup {ProcList, ProcKillAll, DeamonTareDown, DeamonKill, DeamonStatus}

\* the request each command sends
Request(cmd) ==
    CASE cmd.cmd = "proc list" -> List
      [] cmd.cmd = "proc kill" -> Kill(cmd.name)
      [] cmd.cmd = "proc restart" -> Restart(cmd.name)
      [] cmd.cmd = "proc kill-all" -> KillAll
      [] cmd.cmd = "deamon tare-down" -> TareDown
      [] cmd.cmd = "deamon kill" -> TareDown
      [] cmd.cmd = "deamon status" -> Status

\* faulty variant: a port file that cannot be read is an internal error
GetPort_InternalError(port_file) ==
    IF port_file THEN Ok("port") ELSE Err(InternalError)

\* get_port: the port file is read and parsed, or the supervisor cannot be
\* found
GetPort(port_file) ==
    IF port_file THEN Ok("port") ELSE Err(SupervisorCantBeFound)

\* send_cli_cmd up to the callback; reply is what socket.recv returned,
\* None for a timeout: Ok(resp) or the Err returned
SendCliCmd(port_file, reply) ==
    IF GetPort(port_file).kind = "Err" THEN GetPort(port_file)
    ELSE IF reply = None THEN Err(SupervisorCantBeFound)
    ELSE IF reply[1].type = "Error" THEN Err(reply[1].error)
    ELSE Ok(reply[1])

\* what the command returns to main: Ok(()) or the Err that `.exit()` prints
CliResult(cmd, port_file, reply) ==
    LET r == SendCliCmd(port_file, reply) IN
    CASE cmd.cmd \in {"proc kill", "proc restart"} ->
            IF r.kind = "Err" THEN Err(CouldNotKillProcess(cmd.name)) ELSE Ok(<<>>)
      [] cmd.cmd = "deamon status" ->
            IF r.kind = "Err" THEN r
            ELSE IF r.value.type = "Version" THEN Ok(<<>>) ELSE Err(InternalError)
      [] OTHER -> IF r.kind = "Err" THEN r ELSE Ok(<<>>)

\* ------------------------------------------- the capsule's files
Option(S) == {None} \cup {Some(x) : x \in S}

\* files beside the capsule file, with the bytes fs::read gives, and the
\* target paths they are declared for
Sources == {"s1", "s2"}
Content(s) == IF s = "s1" THEN <<1>> ELSE <<2, 3>>
Targets == {<<"t1">>, <<"etc", "t2">>}
Cwds == {<<"work">>}

\* HashMap<String, String>, source -> target, no target declared twice
FileMaps ==
    UNION {{m \in [d -> Targets] : \A x, y \in d : m[x] = m[y] => x = y} :
              d \in SUBSET Sources}

\* capsules_lib struct Capsule and struct Process: the fields to_binary and
\* extract_files read. Process "b" declares no cwd and no files.
CapsuleFiles ==
    {c \in [files : Option(FileMaps),
            pfiles : [Names -> Option(FileMaps)],
            cwd : [Names -> Option(Cwds)]] :
        c.pfiles["b"] = None /\ c.cwd["b"] = None}

NoFiles ==
    [files |-> None, pfiles |-> [n \in Names |-> None], cwd |-> [n \in Names |-> None]]

\* ------------------------------------- capsules_compiler: to_binary
\* Uuid::new_v4 for the entry of one mapping: taken never to repeat
Id(scope, s) == <<scope, s>>

\* write_files: the new mapping, identifier -> target
NewMapping(scope, files) ==
    [i \in {Id(scope, s) : s \in DOMAIN files} |-> files[i[2]]]

Rewritten(scope, files) ==
    IF files = None THEN None ELSE Some(NewMapping(scope, files[1]))

\* write_files: the archive entries, identifier -> bytes
Entries(scope, files) ==
    IF files = None THEN {} ELSE {Id(scope, s) : s \in DOMAIN files[1]}

ZipOf(c) ==
    [i \in Entries("", c.files) \cup UNION {Entries(n, c.pfiles[n]) : n \in Names}
        |-> Content(i[2])]

\* the records of a finished archive: one per entry, and the end record
\* that finish() writes
Records(zip) == Cardinality(DOMAIN zip) + 1

\* faulty variant: fs is left unset for a capsule without file entries
ToBinary_NoneIfEmpty(c) ==
    [files |-> Rewritten("", c.files),
     pfiles |-> [n \in Names |-> Rewritten(n, c.pfiles[n])],
     cwd |-> c.cwd,
     fs |-> IF DOMAIN ZipOf(c) = {} THEN None ELSE Some(ZipOf(c))]

\* to_binary: the Capsule that is serialized (postcard's to_allocvec and
\* from_bytes are taken as inverse to one another)
ToBinary(c) ==
    [files |-> Rewritten("", c.files),
     pfiles |-> [n \in Names |-> Rewritten(n, c.pfiles[n])],
     cwd |-> c.cwd,
     fs |-> Some(ZipOf(c))]

\* ----------------------------------- capsules_runtime: extract_files
\* get_capsule_cwd and get_port_file_path, from the directory of the
\* executable; the directories a supervisor may be started in
Root == <<"exe", ".capsule">>
PortPath == Root \o <<"capsule.port">>
CurrentDirs == {<<"exe">>, Root, <<"home">>}
NewPort == <<52, 50>>
StalePort == <<52, 49>>

Under(base, path) ==
    Len(path) >= Len(base) /\ SubSeq(path, 1, Len(base)) = base

\* a relative path, as the OS resolves it
Resolve(cur, path) == cur \o path

\* process.cwd.as_ref().unwrap_or(name)
CwdOf(c, n) == UnwrapOr(c.cwd[n], <<n>>)

\* extract_file_map(zip, root, files): (out_path, zip_name) per entry
FileMapWrites(base, files) ==
    IF files = None THEN {} ELSE {<<base \o files[1][i], i>> : i \in DOMAIN files[1]}

\* extract_files: the global files under get_capsule_cwd(), the files of a
\* process under Path::new(cwd)
ExtractWrites(c, cur) ==
    FileMapWrites(Root, c.files)
    \cup UNION {FileMapWrites(Resolve(cur, CwdOf(c, n)), c.pfiles[n]) : n \in Names}

\* faulty variant: nothing is extracted
Write_Nothing(d, w, zip) == d

\* the disk after File::create and io::copy for the writes w
Write(d, w, zip) ==
    [path \in DOMAIN d \cup {x[1] : x \in w} |->
        IF \E x \in w : x[1] = path
        THEN zip[(CHOOSE x \in w : x[1] = path)[2]]
        ELSE d[path]]

\* remove_dir_all(root)
Outside(d) == [path \in {q \in DOMAIN d : ~Under(Root, q)} |-> d[path]]

Empty == [path \in {} |-> <<>>]

CouldNotFindFile == <<"CouldNotFindFile">>
CouldNotWriteFile == <<"CouldNotWriteFile">>
CouldNotCreatePath == <<"CouldNotCreatePath">>
CouldNotStartUdpServer == <<"CouldNotStartUdpServer">>
ExtractErrors == {CouldNotFindFile, CouldNotWriteFile, CouldNotCreatePath, InternalError}

\* ------------------------------------------------------------------ Init
\* The capsules checked: process "a" with every restart policy and delay,
\* beside a process "b" that sets neither.
Capsules ==
    {cp \in [Names -> Process] :
        cp["b"] = [restart_policy |-> None, restart_delay |-> None]}

\* deamon_run before its first start_child: the capsule is read, the table is
\* empty, the socket is bound and nothing has been received
Boot(capsules, senders) ==
    /\ capsule \in capsules
    /\ clients = senders
    /\ pc = "spawn"
    /\ todo = Names
    /\ table = [n \in {} |-> 0]
    /\ root = TRUE
    /\ inflight = [c \in Clients |-> None]
    /\ serviced = None
    /\ sent = <<>>
    /\ respawned = {}
    /\ cli = None
    /\ source = NoFiles
    /\ bundle = Some(ToBinary(NoFiles))
    /\ disk = [path \in {PortPath} |-> NewPort]
    /\ current_dir = <<"exe">>
    /\ start_error = None

\* the supervisor's own executable, from which get_data read the capsule:
\* a plain package, left alone while the supervisor runs
Loaded ==
    /\ exe = Run(<<127>>, <<1>>, None, <<>>, <<>>)
    /\ env_password = None
    /\ packed = Some([runtime |-> <<127>>, payload |-> <<1>>, magic |-> MAGIC_NUMBER_PLAIN])
    /\ got = Some(Got(Ok(<<1>>), Some(<<1>>), FALSE))
    /\ sealed = None
    /\ opened = None

\* one client at a time, every capsule
Init == Boot(Capsules, {"c1"}) /\ Loaded

\* two clients at once, each from a socket of its own, and one capsule
InitClients ==
    /\ Boot({cp \in Capsules :
                cp["a"] = [restart_policy |-> Some("Never"), restart_delay |-> None]},
            Clients)
    /\ Loaded

\* ------------------------------------------------------- initial spawn
\* One turn of `for (name, proc) in processes`: start_child fails and the
\* process is skipped, or the RunningProcess is inserted.
RunningProcess(name, proc, pid) ==
    [name |-> name, status |-> Running(pid), config |-> proc,
     child |-> NewChild(pid), elapsed |-> 0, force_restart |-> FALSE,
     restarts |-> 0]

Insert(t, name, entry) ==
    [n \in DOMAIN t \cup {name} |-> IF n = name THEN entry ELSE t[n]]

\* faulty variant: a failed spawn is returned with `?`
SpawnInitial_Fatal ==
    /\ pc = "spawn"
    /\ \E name \in todo :
        /\ todo' = todo \ {name}
        /\ \/ table' = table /\ pc' = "done"
           \/ \E pid \in FreePids(table) :
                /\ table' = Insert(table, name, RunningProcess(name, capsule[name], pid))
                /\ pc' = pc
    /\ UNCHANGED <<capsule, clients, root, inflight, serviced, sent, respawned>>
    /\ UNCHANGED <<cli, binary, crypto, startup, disk>>

SpawnInitial ==
    /\ pc = "spawn"
    /\ \E name \in todo :
        /\ todo' = todo \ {name}
        /\ \/ table' = table
           \/ \E pid \in FreePids(table) :
                table' = Insert(table, name, RunningProcess(name, capsule[name], pid))
    /\ UNCHANGED <<capsule, clients, pc, root, inflight, serviced, sent, respawned>>
    /\ UNCHANGED <<cli, binary, crypto, startup, disk>>

\* System::new(), the first pid list, and the entry into `loop`
EnterLoop ==
    /\ pc = "spawn"
    /\ todo = {}
    /\ pc' = "recv"
    /\ UNCHANGED <<capsule, clients, todo, table, root, inflight, serviced, sent, respawned>>
    /\ UNCHANGED <<cli, binary, crypto, startup, disk>>

\* ------------------------------------------------------------- clients
\* send_cli_cmd: one request datagram from a socket of the client's own. A
\* datagram is seen by the supervisor only at recv_from, so it is queued
\* right before one.
ClientSend(c, msg) ==
    /\ pc = "recv"
    /\ c \in clients
    /\ inflight[c] = None
    /\ inflight' = [inflight EXCEPT ![c] = Some(msg)]
    /\ UNCHANGED <<capsule, clients, pc, todo, table, root, serviced, sent, respawned>>
    /\ UNCHANGED <<cli, binary, crypto, startup, disk>>

\* ------------------------------------------------- datagram dispatch
\* faulty variant: the socket is drained, the datagrams after the first
\* being dropped
Serviced_Drains(c, resps) ==
    /\ inflight' = [d \in Clients |-> None]
    /\ serviced' = Some(<<c, inflight[c][1]>>)
    /\ sent' = [i \in 1..Len(resps) |-> <<c, resps[i]>>]

\* faulty variant: the responses go to the address of any client
Serviced_ToAnyone(c, resps) ==
    /\ inflight' = [inflight EXCEPT ![c] = None]
    /\ serviced' = Some(<<c, inflight[c][1]>>)
    /\ \E d \in clients : sent' = [i \in 1..Len(resps) |-> <<d, resps[i]>>]

\* recv_from took client c's datagram; resps are the responses send_to hands
\* to client_addr while it is handled.
Serviced(c, resps) ==
    /\ inflight' = [inflight EXCEPT ![c] = None]
    /\ serviced' = Some(<<c, inflight[c][1]>>)
    /\ sent' = [i \in 1..Len(resps) |-> <<c, resps[i]>>]

Pending(c, msg) == pc = "recv" /\ inflight[c] = Some(msg)

\* recv_from returns WouldBlock: nothing is queued
RecvNone ==
    /\ pc = "recv"
    /\ \A c \in Clients : inflight[c] = None
    /\ pc' = "reap"
    /\ serviced' = None
    /\ sent' = <<>>
    /\ UNCHANGED <<capsule, clients, todo, table, root, inflight, respawned>>
    /\ UNCHANGED <<cli, binary, crypto, startup, disk>>

\* from_bytes::<CliMessage> fails: the datagram is dropped, no response
RecvGarbage(c) ==
    /\ Pending(c, Garbage)
    /\ Serviced(c, <<>>)
    /\ pc' = "reap"
    /\ UNCHANGED <<capsule, clients, todo, table, root, respawned>>
    /\ UNCHANGED <<cli, binary, crypto, startup, disk>>

\* faulty variant: a pending restart outlives the kill
KillEntry_PendingWins(p, prompt) ==
    [p EXCEPT !.status = IF p.force_restart THEN @ ELSE Killed,
              !.child = Waited(Killing(@, prompt))]

\* CliMessage::Kill, the Ok(_) arm: the entry after kill and try_wait
KillEntry(p, prompt) ==
    [p EXCEPT !.status = Killed, !.child = Waited(Killing(@, prompt))]

\* faulty variant: a process already Killed counts as not found
KillResp_KilledIsGone(t, name, ok) ==
    IF name \in DOMAIN t /\ t[name].status # Killed
    THEN IF ok THEN RespOk ELSE RespError(InternalError)
    ELSE RespError(ProcessNotFound(name))

\* CliMessage::Kill: the response, by whether the name is in the table and
\* what child.kill() returned
KillResp(t, name, ok) ==
    IF name \in DOMAIN t
    THEN IF ok THEN RespOk ELSE RespError(InternalError)
    ELSE RespError(ProcessNotFound(name))

\* faulty variant: the status is set before kill's result is looked at
KillTable_MarksFirst(t, name, ok, prompt) ==
    IF name \in DOMAIN t
    THEN IF ok THEN [t EXCEPT ![name] = KillEntry(@, prompt)]
               ELSE [t EXCEPT ![name].status = Killed]
    ELSE t

KillTable(t, name, ok, prompt) ==
    IF name \in DOMAIN t /\ ok
    THEN [t EXCEPT ![name] = KillEntry(@, prompt)]
    ELSE t

HandleKill(c, name) ==
    /\ Pending(c, Kill(name))
    /\ \E ok \in (IF name \in DOMAIN table THEN KillResults(table[name].child) ELSE {TRUE}),
          prompt \in BOOLEAN :
        /\ table' = KillTable(table, name, ok, prompt)
        /\ Serviced(c, <<KillResp(table, name, ok)>>)
    /\ pc' = "reap"
    /\ UNCHANGED <<capsule, clients, todo, root, respawned>>
    /\ UNCHANGED <<cli, binary, crypto, startup, disk>>

\* CliMessage::Restart, the Ok(_) arm
RestartEntry(p, prompt) ==
    [p EXCEPT !.status = Starting, !.force_restart = TRUE,
              !.child = Waited(Killing(@, prompt))]

RestartResp(t, name, ok) ==
    IF name \in DOMAIN t
    THEN IF ok THEN RespOk ELSE RespError(InternalError)
    ELSE RespError(ProcessNotFound(name))

\* faulty variant: a declared process missing from the table is started
RestartTable_Retries(t, name, ok, prompt) ==
    IF name \in DOMAIN t
    THEN IF ok THEN [t EXCEPT ![name] = RestartEntry(@, prompt)] ELSE t
    ELSE IF name \in Names /\ FreePids(t) # {}
         THEN Insert(t, name, RunningProcess(name, capsule[name],
                                             CHOOSE pid \in FreePids(t) : TRUE))
         ELSE t

RestartTable(t, name, ok, prompt) ==
    IF name \in DOMAIN t /\ ok
    THEN [t EXCEPT ![name] = RestartEntry(@, prompt)]
    ELSE t

HandleRestart(c, name) ==
    /\ Pending(c, Restart(name))
    /\ \E ok \in (IF name \in DOMAIN table THEN KillResults(table[name].child) ELSE {TRUE}),
          prompt \in BOOLEAN :
        /\ table' = RestartTable(table, name, ok, prompt)
        /\ Serviced(c, <<RestartResp(table, name, ok)>>)
    /\ pc' = "reap"
    /\ UNCHANGED <<capsule, clients, todo, root, respawned>>
    /\ UNCHANGED <<cli, binary, crypto, startup, disk>>

\* CliMessage::List: one ListResp per table entry (cpu, memory, disk and run
\* time are what the OS measured, and are left out)
ListResp(p) == [name |-> p.name, status |-> p.status, restarts |-> p.restarts]

\* faulty variant: Killed processes are left out of the list
ListTable_SkipsKilled(t) == {ListResp(t[n]) : n \in {m \in DOMAIN t : t[m].status # Killed}}

ListTable(t) == {ListResp(t[n]) : n \in DOMAIN t}

HandleList(c) ==
    /\ Pending(c, List)
    /\ Serviced(c, <<RespList(ListTable(table))>>)
    /\ pc' = "reap"
    /\ UNCHANGED <<capsule, clients, todo, table, root, respawned>>
    /\ UNCHANGED <<cli, binary, crypto, startup, disk>>

\* CliMessage::KillAll: per entry, kill; on Ok mark Killed and try_wait
KillAllEntry(p, ok, prompt) == IF ok THEN KillEntry(p, prompt) ELSE p

KillAllTable(t, ok, prompt) ==
    [n \in DOMAIN t |-> KillAllEntry(t[n], ok[n], prompt[n])]

KillChoices(t) ==
    {ok \in [DOMAIN t -> BOOLEAN] : \A n \in DOMAIN t : ok[n] \in KillResults(t[n].child)}

HandleKillAll(c) ==
    /\ Pending(c, KillAll)
    /\ \E ok \in KillChoices(table), prompt \in [DOMAIN table -> BOOLEAN] :
        table' = KillAllTable(table, ok, prompt)
    /\ Serviced(c, <<RespOk>>)
    /\ pc' = "reap"
    /\ UNCHANGED <<capsule, clients, todo, root, respawned>>
    /\ UNCHANGED <<cli, binary, crypto, startup, disk>>

\* faulty variant: the killed children are marked Killed
TareDownEntry_MarksKilled(p, ok, prompt) ==
    IF ok THEN [p EXCEPT !.status = Killed, !.child = Waited(Killing(@, prompt))]
          ELSE [p EXCEPT !.child = Waited(@)]

\* CliMessage::TareDown: kill().ok() and try_wait per entry (the status is
\* left alone), clear_files, the response, return
TareDownEntry(p, ok, prompt) ==
    IF ok THEN [p EXCEPT !.child = Waited(Killing(@, prompt))]
          ELSE [p EXCEPT !.child = Waited(@)]

TareDownTable(t, ok, prompt) ==
    [n \in DOMAIN t |-> TareDownEntry(t[n], ok[n], prompt[n])]

\* clear_files: remove_dir_all(root), then remove_dir_all(root/cwd) for every
\* declared process, which fails once the root is gone
ClearFilesOk(declared, removed) == removed /\ declared = {}

TareDownResp(declared, removed) ==
    IF ClearFilesOk(declared, removed) THEN RespOk ELSE RespError(InternalError)

HandleTareDown(c) ==
    /\ Pending(c, TareDown)
    /\ \E ok \in KillChoices(table), prompt \in [DOMAIN table -> BOOLEAN] :
        table' = TareDownTable(table, ok, prompt)
    /\ \E removed \in (IF root THEN BOOLEAN ELSE {FALSE}) :
        /\ root' = (root /\ ~removed)
        /\ disk' = IF removed THEN Outside(disk) ELSE disk
        /\ Serviced(c, <<TareDownResp(DOMAIN capsule, removed)>>)
    /\ pc' = "done"
    /\ UNCHANGED <<capsule, clients, todo, respawned>>
    /\ UNCHANGED <<cli, binary, crypto, startup>>

\* CliMessage::Status
HandleStatus(c) ==
    /\ Pending(c, Status)
    /\ Serviced(c, <<RespVersion>>)
    /\ pc' = "reap"
    /\ UNCHANGED <<capsule, clients, todo, table, root, respawned>>
    /\ UNCHANGED <<cli, binary, crypto, startup, disk>>

\* faulty variant: KillDeamon clears the files as TareDown does
HandleKillDeamon_Clears(c) ==
    /\ Pending(c, KillDeamon)
    /\ Serviced(c, <<RespOk>>)
    /\ pc' = "done"
    /\ root' = FALSE
    /\ disk' = Outside(disk)
    /\ UNCHANGED <<capsule, clients, todo, table, respawned>>
    /\ UNCHANGED <<cli, binary, crypto, startup>>

\* CliMessage::KillDeamon
HandleKillDeamon(c) ==
    /\ Pending(c, KillDeamon)
    /\ Serviced(c, <<RespOk>>)
    /\ pc' = "done"
    /\ UNCHANGED <<capsule, clients, todo, table, root, respawned>>
    /\ UNCHANGED <<cli, binary, crypto, startup, disk>>

\* ------------------------------------------------------------ reap loop
\* Duration::from_millis(proc.config.restart_delay.unwrap_or(10))
NextRun(p) == UnwrapOr(p.config.restart_delay, DefaultRestartDelay)

\* faulty variant: a forced restart is counted like a policy-driven one
ShouldRestart_CountsForced(p, status) ==
    IF p.force_restart
    THEN <<TRUE, 1>>
    ELSE LET restart == UnwrapOr(p.config.restart_policy, "Never")
         IN  <<(~Success(status) /\ restart = "OnFailure") \/ restart = "Always", 1>>

\* faulty variant: on_failure restarts whatever the exit status
ShouldRestart_IgnoresSuccess(p, status) ==
    IF p.force_restart
    THEN <<TRUE, 0>>
    ELSE LET restart == UnwrapOr(p.config.restart_policy, "Never")
         IN  <<restart = "OnFailure" \/ restart = "Always", 1>>

\* (should_restart, inc) for an exited child
ShouldRestart(p, status) ==
    IF p.force_restart
    THEN <<TRUE, 0>>
    ELSE LET restart == UnwrapOr(p.config.restart_policy, "Never")
         IN  <<(~Success(status) /\ restart = "OnFailure") \/ restart = "Always", 1>>

\* faulty variant: a Killed process is not skipped
Reaps_KilledToo(p) ==
    /\ ~(p.elapsed < NextRun(p))
    /\ TryWait(p.child) # None

\* faulty variant: the restart delay is not waited for
Reaps_NoDelay(p) ==
    /\ p.status # Killed
    /\ TryWait(p.child) # None

\* whether this turn of the reap loop gets to the `match proc.child.try_wait()`
\* arm Ok(Some(status))
Reaps(p) ==
    /\ p.status # Killed
    /\ ~(p.elapsed < NextRun(p))
    /\ TryWait(p.child) # None

\* faulty variant: the respawn forgets the counter
Respawn_NoCount(p, pid, inc) ==
    [p EXCEPT !.status = Running(pid), !.child = NewChild(pid), !.elapsed = 0]

\* faulty variant: a respawned process is Starting until it is seen to run
Respawn_ViaStarting(p, pid, inc) ==
    [p EXCEPT !.status = Starting, !.child = NewChild(pid),
              !.restarts = @ + inc, !.elapsed = 0]

\* faulty variant: the respawn replaces the handle and leaves the status
Respawn_KeepsStatus(p, pid, inc) ==
    [p EXCEPT !.child = NewChild(pid), !.restarts = @ + inc, !.elapsed = 0]

\* start_child succeeded with `pid`: the closure given to `.map`
Respawn(p, pid, inc) ==
    [p EXCEPT !.status = Running(pid), !.child = NewChild(pid),
              !.restarts = @ + inc, !.elapsed = 0]

\* faulty variant: a failed attempt is counted
ReapEntry_CountsFailed(p, spawn) ==
    IF ~Reaps(p)
    THEN p
    ELSE LET status == TryWait(p.child)[1]
             d == ShouldRestart(p, status)
             q == [p EXCEPT !.child = Waited(@), !.force_restart = FALSE]
         IN  IF d[1]
             THEN IF spawn = None THEN [q EXCEPT !.restarts = Min(@ + d[2], MaxRestarts)]
                                  ELSE Respawn(q, spawn[1], d[2])
             ELSE [q EXCEPT !.status = Exited(CodeOf(status))]

\* One turn of `for (_, proc) in table.iter_mut()`; spawn is what start_child
\* returns if it is called: None (Err) or Some(pid)
ReapEntry(p, spawn) ==
    IF ~Reaps(p)
    THEN p
    ELSE LET status == TryWait(p.child)[1]
             d == ShouldRestart(p, status)
             q == [p EXCEPT !.child = Waited(@), !.force_restart = FALSE]
         IN  IF d[1]
             THEN IF spawn = None THEN q ELSE Respawn(q, spawn[1], d[2])
             ELSE [q EXCEPT !.status = Exited(CodeOf(status))]

\* whether this turn calls start_child
Spawns(p) == Reaps(p) /\ ShouldRestart(p, TryWait(p.child)[1])[1]

\* The OS gives no two living children one pid
PidsDistinct(t) ==
    \A n, m \in DOMAIN t :
        (n # m /\ t[n].child.st # "reaped" /\ t[m].child.st # "reaped")
            => t[n].child.pid # t[m].child.pid

\* what start_child may return in each turn: a spawn can always fail, and the
\* counter's bound is kept by letting it fail
SpawnChoices(t) ==
    {sp \in [DOMAIN t -> {None} \cup {Some(pid) : pid \in Pids}] :
        \A n \in DOMAIN t :
            sp[n] # None =>
                /\ Spawns(t[n])
                /\ t[n].restarts + ShouldRestart(t[n], TryWait(t[n].child)[1])[2]
                      <= MaxRestarts}

\* the children a pass of the reap loop starts, each with the inc it adds
Started(t, sp) ==
    {<<n, ShouldRestart(t[n], TryWait(t[n].child)[1])[2]>> :
        n \in {m \in DOMAIN t : sp[m] # None}}

\* faulty variant: a process whose respawn fails is dropped, as the initial
\* spawn pass would drop it
ReapTable_DropsFailed(t, sp) ==
    [n \in {m \in DOMAIN t : ~(Spawns(t[m]) /\ sp[m] = None)} |-> ReapEntry(t[n], sp[n])]

ReapTable(t, sp) == [n \in DOMAIN t |-> ReapEntry(t[n], sp[n])]

Reap ==
    /\ pc = "reap"
    /\ \E sp \in SpawnChoices(table) :
        /\ PidsDistinct(ReapTable(table, sp))
        /\ table' = ReapTable(table, sp)
        /\ respawned' = Started(table, sp)
    /\ pc' = "metrics"
    /\ serviced' = None
    /\ sent' = <<>>
    /\ UNCHANGED <<capsule, clients, todo, root, inflight>>
    /\ UNCHANGED <<cli, binary, crypto, startup, disk>>

\* ------------------------------------------- metrics refresh and sleep
\* Instant::elapsed after d more milliseconds
Later(t, d) ==
    [n \in DOMAIN t |-> [t[n] EXCEPT !.elapsed = Min(@ + d, NextRun(t[n]))]]

\* The metrics refresh, when it is due, and the tail sleep of the iteration.
\* The refresh writes only the System's measurements, which List copies into
\* the fields left out of ListResp.
Metrics ==
    /\ pc = "metrics"
    /\ table' = Later(table, SleepMs)
    /\ respawned' = {}
    /\ pc' = "recv"
    /\ UNCHANGED <<capsule, clients, todo, root, inflight, serviced, sent>>
    /\ UNCHANGED <<cli, binary, crypto, startup, disk>>

\* ----------------------------------------------------------- environment
\* A child ends: by itself with an exit code or by a foreign signal, or
\* under the SIGKILL sent to it. The supervisor looks at its children only in
\* the dispatch and in the reap loop right after it, so a child that ended
\* since the last look is one that ends before the next recv_from.
ExitChild(h, status) ==
    [h EXCEPT !.st = "zombie", !.code = IF h.st = "dying" THEN None ELSE status]

ChildExit(name, status) ==
    /\ pc = "recv"
    /\ name \in DOMAIN table
    /\ table[name].child.st \in {"alive", "dying"}
    /\ table' = [table EXCEPT ![name].child = ExitChild(@, status)]
    /\ UNCHANGED <<capsule, clients, pc, todo, root, inflight, serviced, sent, respawned>>
    /\ UNCHANGED <<cli, binary, crypto, startup, disk>>

\* ------------------------------------------- commands after the exit
\* A client command run once deamon_run has returned: the port file is read
\* from the disk, and no response comes (recv times out). While
\* the supervisor runs, a command's datagram is ClientSend's and its result
\* is CliResult of the response in `sent`. A command run after the exit
\* changes nothing that a later one reads, so one command is followed.
ClientRun(c, cmd) ==
    /\ pc = "done"
    /\ c \in clients
    /\ cli = None
    /\ cli' = Some(<<cmd, CliResult(cmd, PortPath \in DOMAIN disk, None)>>)
    /\ UNCHANGED <<supervisor, binary, crypto, startup, disk>>

\* ------------------------------------------- packaging and loading
\* the inputs of the packager: runtime images and serialized capsules
Runtimes == {<<>>, <<127>>, <<127, 69, 76>>}
Inputs == UNION {[1..n -> {0, 255}] : n \in 0..MaxInput}

\* capsules_compiler run: the output file is written
Package(runtime, input_bytes, pass, salt, nonce) ==
    /\ exe = <<>>
    /\ packed = None
    /\ exe' = Run(runtime, input_bytes, pass, salt, nonce)
    /\ packed' = Some([runtime |-> runtime,
                       payload |-> Payload(input_bytes, pass, salt, nonce)[1],
                       magic |-> Payload(input_bytes, pass, salt, nonce)[2]])
    /\ got' = None
    /\ UNCHANGED <<supervisor, cli, env_password, crypto, startup, disk>>

\* a file with its footer replaced
SetFooter(file, len_bytes, magic) ==
    SubSeq(file, 1, Len(file) - FOOTER_SIZE) \o len_bytes \o magic

\* length fields and magics a damaged or foreign file may end in
LenFields ==
    {0, 1, 2, 3, MaxSigned - FOOTER_SIZE, MaxSigned, MaxSigned + 1,
     Modulus - FOOTER_SIZE, Modulus - 1}
Magics ==
    {MAGIC_NUMBER_PLAIN, MAGIC_NUMBER_ENCRIPTED,
     <<83, 69, 84, 69, 78, 86, 95, 88>>, [i \in 1..MagicSize |-> 0]}

Damaged(file) ==
    {SubSeq(file, 1, k) : k \in 0..(Len(file) - 1)}
    \cup {SetFooter(file, ToLeBytes(v), SubSeq(file, Len(file) - MagicSize + 1, Len(file))) :
            v \in LenFields}
    \cup {SetFooter(file, SubSeq(file, Len(file) - FOOTER_SIZE + 1, Len(file) - MagicSize), m) :
            m \in Magics}

\* the file is not, or no longer, what the packager wrote: it is cut short,
\* or its footer holds another length or another magic
Damage ==
    /\ packed # None
    /\ got = None
    /\ exe' \in Damaged(exe) \ {exe}
    /\ packed' = None
    /\ UNCHANGED <<supervisor, cli, env_password, got, crypto, startup, disk>>

\* capsules_runtime get_data on the file
Load ==
    /\ got = None
    /\ \E g \in GetData(exe, env_password) : got' = Some(g)
    /\ UNCHANGED <<supervisor, cli, exe, env_password, packed, crypto, startup, disk>>

\* no binary yet; the supervisor has not started
InitLoad ==
    /\ capsule \in {cp \in Capsules :
                      cp["a"] = [restart_policy |-> None, restart_delay |-> None]}
    /\ clients = {}
    /\ pc = "load"
    /\ todo = Names
    /\ table = [n \in {} |-> 0]
    /\ root = FALSE
    /\ inflight = [c \in Clients |-> None]
    /\ serviced = None
    /\ sent = <<>>
    /\ respawned = {}
    /\ cli = None
    /\ exe = <<>>
    /\ env_password \in {None} \cup {Some(p) : p \in Passwords}
    /\ packed = None
    /\ got = None
    /\ sealed = None
    /\ opened = None
    /\ source = NoFiles
    /\ bundle = None
    /\ disk = Empty
    /\ current_dir = <<"exe">>
    /\ start_error = None

NextLoad ==
    \/ \E runtime \in Runtimes, input_bytes \in Inputs :
        \/ Package(runtime, input_bytes, None, <<>>, <<>>)
        \/ \E p \in Passwords, salt \in Salts, nonce \in Nonces :
            Package(runtime, input_bytes, Some(p), salt, nonce)
    \/ Damage
    \/ Load

SpecLoad == InitLoad /\ [][NextLoad]_vars

\* ------------------------------------------- encrypting and decrypting
\* encrypt(password, plaintext), with what the random generator gave
Seal(password, plaintext, salt, nonce) ==
    /\ sealed = None
    /\ sealed' = Some([password |-> password, plaintext |-> plaintext,
                       salt |-> Encrypt(password, plaintext, salt, nonce)[1],
                       nonce |-> Encrypt(password, plaintext, salt, nonce)[2],
                       produced |-> Encrypt(password, plaintext, salt, nonce)[3],
                       ciphertext |-> Encrypt(password, plaintext, salt, nonce)[3]])
    /\ UNCHANGED <<supervisor, cli, binary, opened, startup, disk>>

\* the ciphertexts made under another key or another nonce
Others(s) ==
    {Encrypt(q[1], q[2], q[3], q[4])[3] :
        q \in {r \in Passwords \X Inputs \X Salts \X Nonces :
                  \/ DeriveKey(r[1], r[3]) # DeriveKey(s.password, s.salt)
                  \/ r[4] # s.nonce}}

\* What a ciphertext can be changed into by who does not hold the key: the
\* body with a byte replaced, two bytes swapped, a byte dropped or added,
\* under the tag as it is, damaged, or taken from another ciphertext; the
\* whole cut short or extended; another ciphertext. The cipher's guarantee
\* is taken as given: none of these is a ciphertext of the same key and
\* nonce.
Bodies(body) ==
    {[body EXCEPT ![i] = b] : i \in 1..Len(body), b \in {0, 1, 255}}
    \cup {[body EXCEPT ![i] = (@ + 1) % 256] : i \in 1..Len(body)}
    \cup {[body EXCEPT ![i] = body[i + 1], ![i + 1] = body[i]] : i \in 1..(Len(body) - 1)}
    \cup {SubSeq(body, 1, Len(body) - 1) : i \in 1..Len(body)}
    \cup {body \o <<b>> : b \in {0, 255}}
    \cup {body}

Tags(s, tag) ==
    {[tag EXCEPT ![i] = (@ + 1) % 256] : i \in 1..TagSize}
    \cup {[i \in 1..TagSize |-> 0], tag}
    \cup {SubSeq(c, Len(c) - TagSize + 1, Len(c)) : c \in Others(s)}

Changed(s) ==
    LET c == s.produced
        n == Len(c) - TagSize
        made == {b \o t : b \in Bodies(SubSeq(c, 1, n)),
                          t \in Tags(s, SubSeq(c, n + 1, Len(c)))}
                \cup {SubSeq(c, 1, k) : k \in 0..(Len(c) - 1)}
                \cup {c \o <<b>> : b \in {0, 255}}
                \cup Others(s)
    IN  {d \in made \ {c} : Decrypt(s.password, s.salt, s.nonce, d).kind = "Err"}

\* the ciphertext is changed on its way to decrypt
Tamper ==
    /\ sealed # None
    /\ opened = None
    /\ sealed[1].ciphertext = sealed[1].produced
    /\ \E c \in Changed(sealed[1]) : sealed' = Some([sealed[1] EXCEPT !.ciphertext = c])
    /\ UNCHANGED <<supervisor, cli, binary, opened, startup, disk>>

\* decrypt(password, salt, nonce, ciphertext) with the produced salt and nonce
Open(password) ==
    /\ sealed # None
    /\ opened = None
    /\ opened' = Some([password |-> password,
                       result |-> Decrypt(password, sealed[1].salt, sealed[1].nonce,
                                          sealed[1].ciphertext)])
    /\ UNCHANGED <<supervisor, cli, binary, sealed, startup, disk>>

\* nothing encrypted yet; no binary, and the supervisor has not started
InitCrypt ==
    /\ capsule \in {cp \in Capsules :
                      cp["a"] = [restart_policy |-> None, restart_delay |-> None]}
    /\ clients = {}
    /\ pc = "load"
    /\ todo = Names
    /\ table = [n \in {} |-> 0]
    /\ root = FALSE
    /\ inflight = [c \in Clients |-> None]
    /\ serviced = None
    /\ sent = <<>>
    /\ respawned = {}
    /\ cli = None
    /\ exe = <<>>
    /\ env_password = None
    /\ packed = None
    /\ got = None
    /\ sealed = None
    /\ opened = None
    /\ source = NoFiles
    /\ bundle = None
    /\ disk = Empty
    /\ current_dir = <<"exe">>
    /\ start_error = None

NextCrypt ==
    \/ \E p \in Passwords, x \in Inputs, salt \in Salts, nonce \in Nonces :
        Seal(p, x, salt, nonce)
    \/ Tamper
    \/ \E p \in Passwords : Open(p)

SpecCrypt == InitCrypt /\ [][NextCrypt]_vars

\* ------------------------------------------- packaging and startup
\* capsules_compiler to_binary on the capsule read
PackCapsule ==
    /\ bundle = None
    /\ pc = "load"
    /\ bundle' = Some(ToBinary(source))
    /\ UNCHANGED <<supervisor, cli, binary, crypto, source, current_dir, start_error, disk>>

\* deamon_run's first statement, once get_data and from_bytes gave the
\* Capsule: extract_files returns Ok with every file written, or returns
\* the error of the step that failed, the writes before it being done
ExtractFiles ==
    /\ pc = "load"
    /\ bundle # None
    /\ LET c == bundle[1]
           w == ExtractWrites(c, current_dir)
       IN  IF c.fs = None
           THEN /\ pc' = "bind"
                /\ UNCHANGED <<disk, root, start_error>>
           ELSE \/ /\ \A x \in w : x[2] \in DOMAIN c.fs[1]
                   /\ disk' = Write(disk, w, c.fs[1])
                   /\ root' = TRUE
                   /\ pc' = "bind"
                   /\ UNCHANGED start_error
                \/ \E e \in ExtractErrors,
                      done \in SUBSET {x \in w : x[2] \in DOMAIN c.fs[1]},
                      made \in BOOLEAN :
                        /\ (\E x \in done : Under(Root, x[1])) => made
                        /\ disk' = Write(disk, done, c.fs[1])
                        /\ root' = (root \/ made)
                        /\ start_error' = Some(e)
                        /\ pc' = "done"
    /\ UNCHANGED <<capsule, clients, todo, table, inflight, serviced, sent, respawned>>
    /\ UNCHANGED <<cli, binary, crypto, source, bundle, current_dir>>

\* UdpSocket::bind, set_nonblocking, local_addr, create_dir_all of the port
\* file's directory and fs::write of the port
WritePortFile ==
    /\ pc = "bind"
    /\ \/ /\ disk' = [path \in DOMAIN disk \cup {PortPath} |->
                        IF path = PortPath THEN NewPort ELSE disk[path]]
          /\ root' = TRUE
          /\ pc' = "spawn"
          /\ UNCHANGED start_error
       \/ /\ start_error' = Some(CouldNotStartUdpServer)
          /\ pc' = "done"
          /\ UNCHANGED <<disk, root>>
       \/ \E made \in BOOLEAN :
            /\ start_error' = Some(InternalError)
            /\ root' = (root \/ made)
            /\ pc' = "done"
            /\ UNCHANGED disk
    /\ UNCHANGED <<capsule, clients, todo, table, inflight, serviced, sent, respawned>>
    /\ UNCHANGED <<cli, binary, crypto, source, bundle, current_dir>>

\* a capsule to package and a host to start it on: nothing extracted, or
\* the extraction root a supervisor ended by KillDeamon left behind
InitStart ==
    /\ capsule \in {cp \in Capsules :
                      cp["a"] = [restart_policy |-> None, restart_delay |-> None]}
    /\ clients = {}
    /\ pc = "load"
    /\ todo = Names
    /\ table = [n \in {} |-> 0]
    /\ \/ root = FALSE /\ disk = Empty
       \/ root = TRUE /\ disk = [path \in {PortPath} |-> StalePort]
    /\ inflight = [c \in Clients |-> None]
    /\ serviced = None
    /\ sent = <<>>
    /\ respawned = {}
    /\ cli = None
    /\ exe = <<>>
    /\ env_password = None
    /\ packed = None
    /\ got = None
    /\ sealed = None
    /\ opened = None
    /\ source \in CapsuleFiles
    /\ bundle = None
    /\ current_dir \in CurrentDirs
    /\ start_error = None

NextStart ==
    \/ PackCapsule
    \/ ExtractFiles
    \/ WritePortFile
    \/ SpawnInitial
    \/ EnterLoop

SpecStart == InitStart /\ [][NextStart]_vars

\* ------------------------------------------------------------------ Next
Next ==
    \/ SpawnInitial
    \/ EnterLoop
    \/ \E c \in Clients, msg \in Datagrams : ClientSend(c, msg)
    \/ \E c \in Clients, cmd \in Commands : ClientRun(c, cmd)
    \/ RecvNone
    \/ \E c \in Clients : RecvGarbage(c)
    \/ \E c \in Clients, name \in ReqNames : HandleKill(c, name)
    \/ \E c \in Clients, name \in ReqNames : HandleRestart(c, name)
    \/ \E c \in Clients : HandleList(c)
    \/ \E c \in Clients : HandleKillAll(c)
    \/ \E c \in Clients : HandleTareDown(c)
    \/ \E c \in Clients : HandleStatus(c)
    \/ \E c \in Clients : HandleKillDeamon(c)
    \/ Reap
    \/ Metrics
    \/ \E name \in Names, status \in ExitStatuses : ChildExit(name, status)

Spec == Init /\ [][Next]_vars

SpecClients == InitClients /\ [][Next]_vars

\* ======================================================== properties
\* a step that replaces n's child handle by a newly started child
Respawned(n) ==
    /\ n \in DOMAIN table
    /\ table[n].child.st # "alive"
    /\ table'[n].child.st = "alive"

\* a step in which the dispatch handles client c's datagram msg
Handles(c, msg) == pc = "recv" /\ inflight[c] = Some(msg) /\ inflight'[c] = None

\* a step in which a Restart{n} is answered Ok
AcceptedRestart(n) ==
    \E c \in Clients : Handles(c, Restart(n)) /\ sent' = <<<<c, RespOk>>>>

\* a pass of the reap loop
ReapStep == pc = "reap" /\ pc' = "metrics"

PolicyOf(p) == UnwrapOr(p.config.restart_policy, "Never")

\* C1, as stated: once a Restart{name} is accepted, whatever commands, child
\* exits and iterations follow, the process stays on its way to the respawn
\* (Starting, restart pending) until that one respawn, which leaves the
\* restarts counter unchanged, has happened.
C1_RestartAlwaysRespawns ==
    [][\A n \in DOMAIN table :
        (table[n].force_restart /\ table[n].status = Starting)
            => \/ table'[n].status = Starting
               \/ (Respawned(n) /\ table'[n].restarts = table[n].restarts)]_vars

\* C1, amended: an accepted Restart{name} marks the process Starting with
\* force_restart set and starts no child itself; the flag is set by nothing
\* else; a respawn made with the flag set clears it and leaves the restarts
\* counter unchanged, and a respawn leaves the counter unchanged only if the
\* flag was set. So an accepted Restart causes at most one respawn, uncounted
\* (none while a later Kill or KillAll keeps the process Killed).
C1_RestartRespawnsAtMostOnce ==
    [][\A n \in DOMAIN table :
        /\ AcceptedRestart(n) =>
              /\ table'[n].force_restart
              /\ table'[n].status = Starting
              /\ table'[n].restarts = table[n].restarts
              /\ ~Respawned(n)
        /\ (~table[n].force_restart /\ table'[n].force_restart) => AcceptedRestart(n)
        /\ (Respawned(n) /\ table[n].force_restart) =>
              /\ ~table'[n].force_restart
              /\ table'[n].restarts = table[n].restarts
        /\ (Respawned(n) /\ table'[n].restarts = table[n].restarts) =>
              table[n].force_restart]_vars

\* a forced respawn has just been made: the child runs, the flag is cleared
C1_Witness ==
    \E n \in DOMAIN table :
        /\ <<n, 0>> \in respawned
        /\ table[n].child.st = "alive"
        /\ ~table[n].force_restart

\* the child has exited (waited for or not) with this ExitStatus
HasExited(p, status) == p.child.st \in {"zombie", "reaped"} /\ p.child.code = status

\* the reap loop does not pass over the process: it is not Killed and its
\* restart delay has elapsed
Due(p) ==
    /\ p.status # Killed
    /\ p.elapsed >= UnwrapOr(p.config.restart_delay, DefaultRestartDelay)

\* C2: a child whose policy is never, on_failure or unset and that exited
\* with code 0, with no Restart pending, is set to Exited(0) by the reap loop
\* that reaps it, and no step respawns it as long as no Restart is pending.
C2_CleanExitStaysExited ==
    [][\A n \in DOMAIN table :
        LET p == table[n] IN
        (PolicyOf(p) \in {"Never", "OnFailure"} /\ ~p.force_restart /\ HasExited(p, Some(0)))
            => /\ ~Respawned(n)
               /\ (ReapStep /\ Due(p)) =>
                     /\ table'[n].status = Exited(0)
                     /\ table'[n].restarts = p.restarts
                     /\ table'[n].child.st = "reaped"]_vars

\* the reap loop has just passed a process set to Exited(0) under on_failure
C2_Witness ==
    \E n \in DOMAIN table :
        /\ pc = "metrics"
        /\ PolicyOf(table[n]) = "OnFailure"
        /\ table[n].status = Exited(0)
        /\ table[n].child.st = "reaped"
        /\ respawned = {}

\* C3, as stated: a child whose policy is always and that exited with code
\* 0, not Killed and with no forced restart pending, is respawned by the reap
\* loop that reaps it, and its restarts counter grows by exactly 1.
C3_AlwaysRespawns ==
    [][\A n \in DOMAIN table :
        LET p == table[n] IN
        (ReapStep /\ Due(p) /\ PolicyOf(p) = "Always" /\ ~p.force_restart
            /\ HasExited(p, Some(0)))
            => /\ Respawned(n)
               /\ table'[n].restarts = p.restarts + 1]_vars

\* C3, amended: the reap loop that reaps such a child calls start_child; if
\* the spawn succeeds the process is Running under the new child's pid and
\* its restarts counter has grown by exactly 1; if the spawn fails its
\* status, counter and start instant are left as they were. It is never set
\* to Exited.
C3_AlwaysRespawnsIfSpawned ==
    [][\A n \in DOMAIN table :
        LET p == table[n] IN
        (ReapStep /\ Due(p) /\ PolicyOf(p) = "Always" /\ ~p.force_restart
            /\ HasExited(p, Some(0)))
            => \/ /\ Respawned(n)
                  /\ table'[n].restarts = p.restarts + 1
                  /\ table'[n].status = Running(table'[n].child.pid)
                  /\ <<n, 1>> \in respawned'
               \/ /\ ~Respawned(n)
                  /\ n \notin {r[1] : r \in respawned'}
                  /\ table'[n].status = p.status
                  /\ table'[n].restarts = p.restarts
                  /\ table'[n].elapsed = p.elapsed]_vars

\* the reap loop has just respawned, and counted, an always process whose
\* child had exited
C3_Witness ==
    \E n \in DOMAIN table :
        /\ pc = "metrics"
        /\ <<n, 1>> \in respawned
        /\ PolicyOf(table[n]) = "Always"
        /\ table[n].restarts = 1
        /\ table[n].child.st = "alive"

\* C4, as stated: a child that exited with a non-zero code or with none,
\* with no forced restart pending: under on_failure or always the reap loop
\* that reaps it respawns it; under never or unset it sets Exited(code),
\* -9999 for a missing code, and does not respawn it.
C4_FailedExit ==
    [][\A n \in DOMAIN table, status \in ExitStatuses \ {Some(0)} :
        LET p == table[n] IN
        (ReapStep /\ Due(p) /\ ~p.force_restart /\ HasExited(p, status))
            => IF PolicyOf(p) \in {"OnFailure", "Always"}
               THEN Respawned(n)
               ELSE /\ ~Respawned(n)
                    /\ table'[n].status = Exited(IF status = None THEN NoExitCode ELSE status[1])]_vars

\* C4, amended: under on_failure or always the reap loop that reaps it calls
\* start_child: the process is respawned if the spawn succeeds, and left with
\* its status and counter if it fails; under never or unset it is set to
\* Exited(code), -9999 for a missing code, and not respawned.
C4_FailedExitIfSpawned ==
    [][\A n \in DOMAIN table, status \in ExitStatuses \ {Some(0)} :
        LET p == table[n] IN
        (ReapStep /\ Due(p) /\ ~p.force_restart /\ HasExited(p, status))
            => IF PolicyOf(p) \in {"OnFailure", "Always"}
               THEN \/ /\ Respawned(n)
                       /\ table'[n].status = Running(table'[n].child.pid)
                       /\ table'[n].restarts = p.restarts + 1
                    \/ /\ ~Respawned(n)
                       /\ table'[n].status = p.status
                       /\ table'[n].restarts = p.restarts
               ELSE /\ ~Respawned(n)
                    /\ table'[n].status = Exited(IF status = None THEN NoExitCode ELSE status[1])
                    /\ table'[n].restarts = p.restarts]_vars

\* the reap loop has just respawned an on_failure process, and has just set a
\* process without a policy to Exited(-9999)
C4_Witness ==
    /\ pc = "metrics"
    /\ \E n \in DOMAIN table :
        /\ PolicyOf(table[n]) = "OnFailure"
        /\ <<n, 1>> \in respawned
    /\ \E n \in DOMAIN table :
        /\ table[n].config.restart_policy = None
        /\ table[n].status = Exited(NoExitCode)

\* a step that handles a Kill or Restart naming n, a KillAll or a TareDown
Touches(n) ==
    \E c \in Clients :
        \/ Handles(c, Kill(n))
        \/ Handles(c, Restart(n))
        \/ Handles(c, KillAll)
        \/ Handles(c, TareDown)

\* C5: a Killed process is passed over by every reap loop, whatever its
\* policy: the loop leaves its entry as it is; and until a Kill, Restart,
\* KillAll or TareDown touches it, it stays Killed under the same child
\* handle, with the same restarts counter and a start instant never renewed.
C5_KilledIsSkipped ==
    [][\A n \in DOMAIN table :
        LET p == table[n] IN
        p.status = Killed
            => /\ ReapStep => (table'[n] = p /\ n \notin {r[1] : r \in respawned'})
               /\ ~Touches(n) =>
                     /\ table'[n].status = Killed
                     /\ table'[n].restarts = p.restarts
                     /\ table'[n].child.pid = p.child.pid
                     /\ ~Respawned(n)
                     /\ table'[n].elapsed >= p.elapsed]_vars

\* the reap loop has just passed over a Killed process whose child has
\* exited, whose delay has elapsed and whose policy is always
C5_Witness ==
    \E n \in DOMAIN table :
        /\ pc = "metrics"
        /\ table[n].status = Killed
        /\ PolicyOf(table[n]) = "Always"
        /\ table[n].child.st \in {"zombie", "reaped"}
        /\ table[n].elapsed >= UnwrapOr(table[n].config.restart_delay, DefaultRestartDelay)

\* C6: the supervisor answers every well-formed request it takes from the
\* socket with exactly one response, addressed to the client the request came
\* from, in the step that services it and so before it takes the next
\* datagram; a datagram that does not parse gets no response, and no response
\* is sent without a request.
C6_OneResponseToSender ==
    /\ serviced = None => sent = <<>>
    /\ \A c \in Clients, msg \in Datagrams :
        serviced = Some(<<c, msg>>)
            => IF msg \in CliMessage
               THEN Len(sent) = 1 /\ sent[1][1] = c
               ELSE sent = <<>>

\* a request of c2 has just been answered while a request of c1 is waiting
C6_Witness ==
    /\ serviced = Some(<<"c2", List>>)
    /\ Len(sent) = 1
    /\ sent[1][1] = "c2"
    /\ inflight["c1"] = Some(Kill("a"))

\* C7: the table holds at most one RunningProcess per process name, each
\* under its own name as key and for a declared process; once the initial
\* spawn pass is over no step adds or removes an entry; and a respawn, forced
\* or by policy, puts the new child handle into the entry that was there,
\* under the same key.
C7_OneEntryPerName ==
    [][/\ DOMAIN table' \subseteq DOMAIN capsule
       /\ pc # "spawn" => DOMAIN table' = DOMAIN table
       /\ \A k, m \in DOMAIN table' :
            /\ table'[k].name = k
            /\ table'[k].name = table'[m].name => k = m
       /\ \A n \in DOMAIN table :
            Respawned(n)
                => /\ DOMAIN table' = DOMAIN table
                   /\ table'[n].name = table[n].name
                   /\ table'[n].config = table[n].config
                   /\ \A m \in DOMAIN table \ {n} :
                        table'[m].name = table[m].name]_vars

\* the reap loop has just respawned one process by policy and one on a
\* Restart, and both declared processes have their entry
C7_Witness ==
    /\ pc = "metrics"
    /\ DOMAIN table = Names
    /\ \E n, m \in DOMAIN table :
        /\ <<n, 1>> \in respawned
        /\ <<m, 0>> \in respawned

\* C8, as stated: the List response holds exactly one entry per declared
\* process, named by the declared names, each with the process's current
\* status and restarts counter.
C8_ListHasDeclared ==
    \A c \in Clients :
        serviced = Some(<<c, List>>)
            => /\ Len(sent) = 1
               /\ sent[1][2].type = "List"
               /\ Cardinality(sent[1][2].entries) = Cardinality(DOMAIN capsule)
               /\ {e.name : e \in sent[1][2].entries} = DOMAIN capsule
               /\ \A e \in sent[1][2].entries :
                    /\ e.name \in DOMAIN table
                    /\ e.status = table[e.name].status
                    /\ e.restarts = table[e.name].restarts

\* C8, amended: the List response holds exactly one entry per process in the
\* table, that is per declared process whose initial spawn succeeded, named
\* by those processes' names, each with the process's current status and
\* restarts counter.
C8_ListHasTable ==
    \A c \in Clients :
        serviced = Some(<<c, List>>)
            => /\ Len(sent) = 1
               /\ sent[1][2].type = "List"
               /\ Cardinality(sent[1][2].entries) = Cardinality(DOMAIN table)
               /\ {e.name : e \in sent[1][2].entries} = DOMAIN table
               /\ DOMAIN table \subseteq DOMAIN capsule
               /\ \A e \in sent[1][2].entries :
                    /\ e.status = table[e.name].status
                    /\ e.restarts = table[e.name].restarts

\* a List has just been answered with a Killed process and a process that
\* was respawned once
C8_Witness ==
    /\ \E c \in Clients : serviced = Some(<<c, List>>)
    /\ Len(sent) = 1
    /\ \E e, f \in sent[1][2].entries :
        /\ e.status = Killed
        /\ f.restarts = 1
        /\ f.status \in {Running(pid) : pid \in Pids}

\* C9: a step that handles Kill{name} either finds the name in the table and
\* the kill succeeding, sets the status Killed and answers Ok; or does not
\* find the name, answers Error(ProcessNotFound(name)) and changes no process;
\* or finds the kill failing, answers Error(InternalError) and leaves the
\* status (and the rest of the table) unchanged.
C9_KillOutcomes ==
    [][\A c \in Clients, name \in ReqNames :
        Handles(c, Kill(name))
            => IF name \notin DOMAIN table
               THEN /\ sent' = <<<<c, RespError(ProcessNotFound(name))>>>>
                    /\ table' = table
               ELSE \/ /\ sent' = <<<<c, RespOk>>>>
                       /\ table'[name].status = Killed
                       /\ table'[name].child.st # "alive"
                       /\ \A m \in DOMAIN table \ {name} : table'[m] = table[m]
                    \/ /\ sent' = <<<<c, RespError(InternalError)>>>>
                       /\ table[name].child.st # "reaped"
                       /\ table' = table]_vars

\* a Kill has just been answered Error(InternalError) and the process named
\* is still Running
C9_Witness ==
    \E c \in Clients, n \in DOMAIN table :
        /\ serviced = Some(<<c, Kill(n)>>)
        /\ sent = <<<<c, RespError(InternalError)>>>>
        /\ table[n].status \in {Running(pid) : pid \in Pids}

\* C10: a step that handles KillAll leaves every process in the table
\* Killed, answers Ok and goes on to the reap loop; and a Killed process is
\* not respawned, and stays Killed, until a Restart names it.
C10_KillAllKillsAll ==
    [][/\ \A c \in Clients :
            Handles(c, KillAll)
                => /\ \A n \in DOMAIN table' : table'[n].status = Killed
                   /\ sent' = <<<<c, RespOk>>>>
                   /\ pc' = "reap"
       /\ \A n \in DOMAIN table :
            table[n].status = Killed
                => /\ ~Respawned(n)
                   /\ table'[n].status # Killed
                        => \E c \in Clients : Handles(c, Restart(n))]_vars

\* C11: a step that handles TareDown, in a supervisor whose capsule declares
\* one or more processes, and that removes the extraction root, answers Ok
\* and ends the supervisor. (Of the claim, this is the part about the
\* response and the exit.)
C11_TareDownAnswersOk ==
    [][\A c \in Clients :
        (Handles(c, TareDown) /\ DOMAIN capsule # {} /\ root /\ ~root')
            => /\ sent' = <<<<c, RespOk>>>>
               /\ pc' = "done"]_vars

\* the six commands C12 names
Named == Commands \ {DeamonKill}

\* C12, as stated: once the extraction root is removed it stays removed, the
\* port file with it, and every client command run then fails with
\* SupervisorCantBeFound.
C12_AllCantBeFound ==
    [][~root =>
        /\ ~root'
        /\ \A cmd \in Named :
            (cli' # None /\ cli'[1][1] = cmd)
                => cli'[1][2] = Err(SupervisorCantBeFound)]_vars

\* C12, amended: once the extraction root is removed it stays removed, the
\* port file with it, and every client command run then fails: proc kill
\* NAME and proc restart NAME with CouldNotKillProcess(NAME), the others with
\* SupervisorCantBeFound.
C12_AllFail ==
    [][~root =>
        /\ ~root'
        /\ \A cmd \in Named :
            (cli' # None /\ cli'[1][1] = cmd)
                => cli'[1][2] =
                      IF cmd.cmd \in {"proc kill", "proc restart"}
                      THEN Err(CouldNotKillProcess(cmd.name))
                      ELSE Err(SupervisorCantBeFound)]_vars

\* after a TareDown that removed the root, proc list has just failed
C12_Witness ==
    /\ pc = "done"
    /\ ~root
    /\ cli = Some(<<ProcList, Err(SupervisorCantBeFound)>>)

\* C13: a step that handles KillDeamon answers Ok, ends the supervisor and
\* leaves the extraction root, with the files and the port file in it, and
\* the table as they are; and only a step that handles TareDown removes the
\* extraction root.
C13_KillDeamonKeepsFiles ==
    [][/\ \A c \in Clients :
            Handles(c, KillDeamon)
                => /\ sent' = <<<<c, RespOk>>>>
                   /\ pc' = "done"
                   /\ root' = root
                   /\ table' = table
       /\ root' # root => \E c \in Clients : Handles(c, TareDown)]_vars

\* the supervisor has just exited on a KillDeamon and the root is there
C13_Witness ==
    /\ \E c \in Clients : serviced = Some(<<c, KillDeamon>>)
    /\ sent[1][2] = RespOk
    /\ pc = "done"
    /\ root

\* C14: an iteration of the loop takes at most one datagram from the socket
\* (any other stays queued), then runs the reap loop, then the metrics
\* refresh and sleep, in that order: the dispatch is followed by the reap
\* loop or the exit, the reap loop only ever follows the dispatch of its own
\* iteration, with no step between that could change what the command left,
\* and neither the reap loop nor the refresh takes a datagram or, for the
\* refresh, changes a process.
C14_IterationOrder ==
    [][/\ Cardinality({c \in Clients : inflight[c] # None /\ inflight'[c] = None}) <= 1
       /\ (pc = "recv" /\ pc' # "recv")
            => /\ pc' \in {"reap", "done"}
               /\ serviced' = None => (table' = table /\ inflight' = inflight)
               /\ \A c \in Clients :
                    (inflight[c] # None /\ inflight'[c] = None)
                        => serviced' = Some(<<c, inflight[c][1]>>)
       /\ pc' = "reap" => pc = "recv"
       /\ pc = "reap" => (pc' = "metrics" /\ inflight' = inflight)
       /\ pc = "metrics"
            => /\ pc' = "recv"
               /\ inflight' = inflight
               /\ DOMAIN table' = DOMAIN table
               /\ \A n \in DOMAIN table :
                    table'[n] = [table[n] EXCEPT !.elapsed = table'[n].elapsed]
       /\ pc = "done" => pc' = "done"]_vars

\* the reap loop of an iteration has respawned a process on the Restart that
\* iteration took, while another client's datagram is still queued
C14_Witness ==
    /\ pc = "metrics"
    /\ respawned # {}
    /\ inflight["c1"] = None
    /\ inflight["c2"] = Some(List)

\* the step handles a request of c and one of its kills failed: the process
\* named, or some process under KillAll, is in the table and was not marked
KillFailed(c) ==
    \/ \E n \in DOMAIN table :
        /\ Handles(c, Kill(n))
        /\ table'[n].status # Killed
    \/ \E n \in DOMAIN table :
        /\ Handles(c, Restart(n))
        /\ ~(table'[n].status = Starting /\ table'[n].force_restart)
    \/ /\ Handles(c, KillAll)
       /\ \E n \in DOMAIN table : table'[n].status # Killed

\* the step handles a request of c that names a process not in the table
UnknownProcess(c) ==
    \E n \in ReqNames \ DOMAIN table : Handles(c, Kill(n)) \/ Handles(c, Restart(n))

\* C15: a step whose request names an unknown process, or in which a kill
\* fails, answers Error(kind); the loop ends only in a step that handles
\* TareDown or KillDeamon, and a step that handles any other request goes on
\* to the reap loop.
C15_FailuresReported ==
    [][\A c \in Clients :
        /\ (UnknownProcess(c) \/ KillFailed(c))
            => (Len(sent') = 1 /\ sent'[1][1] = c /\ sent'[1][2].type = "Error")
        /\ (pc # "done" /\ pc' = "done")
            => \E d \in Clients : Handles(d, TareDown) \/ Handles(d, KillDeamon)
        /\ \A msg \in CliMessage \ {TareDown, KillDeamon} :
            Handles(c, msg) => pc' = "reap"]_vars

\* C16: the initial spawn pass visits every declared process, one per step:
\* a spawn that fails leaves the table as it is and the pass goes on, a spawn
\* that succeeds enters the process as Running under its child's pid; the
\* supervisor leaves the pass only into its loop, and only when every
\* declared process was visited.
C16_SpawnFailureNotFatal ==
    [][pc = "spawn" =>
        \/ /\ pc' = "spawn"
           /\ \E name \in todo :
                /\ todo' = todo \ {name}
                /\ \/ table' = table
                   \/ /\ DOMAIN table' = DOMAIN table \cup {name}
                      /\ table'[name].status = Running(table'[name].child.pid)
                      /\ table'[name].child.st = "alive"
                      /\ \A m \in DOMAIN table : table'[m] = table[m]
        \/ /\ pc' = "recv"
           /\ todo = {}
           /\ table' = table]_vars

\* the loop is entered with a's spawn failed and b in the table
C16_Witness ==
    /\ pc = "recv"
    /\ todo = {}
    /\ DOMAIN table = {"b"}
    /\ table["b"].child.st = "alive"

\* both clients' Kill{n} are queued and n is running
BothKill(n) ==
    /\ \A c \in Clients : inflight[c] = Some(Kill(n))
    /\ table[n].status = Running(table[n].child.pid)
    /\ table[n].child.st = "alive"

\* C17, as stated: with Kill{n} of two clients queued for a running process
\* n, the first handled is answered Ok and n becomes Killed; a Kill{n} handled
\* once n is Killed, as the second is, is answered Ok or
\* Error(ProcessNotFound); and the loop goes on after each.
C17_BothKillsOk ==
    [][\A c \in Clients, n \in DOMAIN table :
        /\ (BothKill(n) /\ Handles(c, Kill(n)))
            => /\ sent' = <<<<c, RespOk>>>>
               /\ table'[n].status = Killed
               /\ pc' = "reap"
        /\ (table[n].status = Killed /\ Handles(c, Kill(n)))
            => /\ sent' \in {<<<<c, RespOk>>>>, <<<<c, RespError(ProcessNotFound(n))>>>>}
               /\ pc' = "reap"]_vars

\* C17, amended: the first handled is answered Ok and n becomes Killed if
\* killing the child succeeds, and is answered Error(InternalError) with n
\* unchanged if it fails; a Kill{n} handled once n is Killed, as the second
\* is, is answered Ok or Error(InternalError), never Error(ProcessNotFound),
\* and Ok if the child was already reaped, and n stays Killed; the loop goes
\* on after each.
C17_BothKillsAnswered ==
    [][\A c \in Clients, n \in DOMAIN table :
        /\ (BothKill(n) /\ Handles(c, Kill(n)))
            => /\ \/ sent' = <<<<c, RespOk>>>> /\ table'[n].status = Killed
                  \/ sent' = <<<<c, RespError(InternalError)>>>> /\ table' = table
               /\ pc' = "reap"
               /\ \A d \in Clients \ {c} : inflight'[d] = Some(Kill(n))
        /\ (table[n].status = Killed /\ Handles(c, Kill(n)))
            => /\ sent' \in {<<<<c, RespOk>>>>, <<<<c, RespError(InternalError)>>>>}
               /\ table[n].child.st = "reaped" => sent' = <<<<c, RespOk>>>>
               /\ table'[n].status = Killed
               /\ pc' = "reap"]_vars

\* the first of two queued Kill{a} has just been answered Ok, a is Killed
\* and the second is still queued
C17_Witness ==
    /\ serviced = Some(<<"c1", Kill("a")>>)
    /\ sent = <<<<"c1", RespOk>>>>
    /\ "a" \in DOMAIN table
    /\ table["a"].status = Killed
    /\ inflight["c2"] = Some(Kill("a"))

\* ------------------------------------------------------------- C18 .. C20
\* the footer of the file, where it has one
FooterReadable == Len(exe) >= FOOTER_SIZE
MagicOf == SubSeq(exe, Len(exe) - MagicSize + 1, Len(exe))
RecordedLen ==
    FromLeBytes(SubSeq(exe, Len(exe) - FOOTER_SIZE + 1, Len(exe) - MagicSize))
BeforeFooter == Len(exe) - FOOTER_SIZE

\* C18: the packager's output is runtime, payload, little-endian payload
\* length, magic: its last FOOTER_SIZE bytes are the length, then the magic,
\* and the runtime's load reads exactly the payload bytes the packager wrote
C18_PackagedLoads ==
    packed # None =>
        LET p == packed[1]
        IN  /\ FooterReadable
            /\ RecordedLen = Len(p.payload)
            /\ MagicOf = p.magic
            /\ p.magic \in {MAGIC_NUMBER_PLAIN, MAGIC_NUMBER_ENCRIPTED}
            /\ SubSeq(exe, 1, BeforeFooter) = p.runtime \o p.payload
            /\ got # None => got[1].read = Some(p.payload)

C18_Witness ==
    /\ packed # None
    /\ got # None
    /\ packed[1].runtime # <<>>
    /\ packed[1].magic = MAGIC_NUMBER_ENCRIPTED
    /\ Len(packed[1].payload) > HeaderSize + TagSize
    /\ got[1].read = Some(packed[1].payload)

\* C19: loading a binary whose magic is neither of the two, whose footer
\* cannot be read, or whose recorded length exceeds the bytes before the
\* footer, fails with NoData
C19_DamagedIsNoData ==
    (got # None /\ (IF FooterReadable
                    THEN \/ MagicOf \notin {MAGIC_NUMBER_PLAIN, MAGIC_NUMBER_ENCRIPTED}
                         \/ RecordedLen > BeforeFooter
                    ELSE TRUE))
        => got[1].result = Err(NoData)

\* C20 as stated, for the binaries whose recorded payload is in the file:
\* with the magic SETENV_E and __SUPERVISOR_PASSWORD__ unset the load fails
\* with InvalidPassword whatever the payload's length
C20_UnsetIsInvalidPassword ==
    (/\ got # None
     /\ env_password = None
     /\ FooterReadable
     /\ MagicOf = MAGIC_NUMBER_ENCRIPTED
     /\ RecordedLen <= BeforeFooter)
        => got[1].result = Err(InvalidPassword) /\ ~got[1].decrypted

\* C20, amended: with the magic SETENV_E, a recorded payload that is in the
\* file and holds at least the HeaderSize bytes of salt and nonce, and
\* __SUPERVISOR_PASSWORD__ unset, the load fails with InvalidPassword and
\* decrypt is not called
C20_UnsetIsInvalidPasswordIfHeader ==
    (/\ got # None
     /\ env_password = None
     /\ FooterReadable
     /\ MagicOf = MAGIC_NUMBER_ENCRIPTED
     /\ RecordedLen <= BeforeFooter
     /\ RecordedLen >= HeaderSize)
        => got[1].result = Err(InvalidPassword) /\ ~got[1].decrypted

C20_Witness ==
    /\ got # None
    /\ env_password = None
    /\ packed # None
    /\ packed[1].magic = MAGIC_NUMBER_ENCRIPTED
    /\ got[1].result = Err(InvalidPassword)
    /\ got[1].read = Some(packed[1].payload)
    /\ ~got[1].decrypted

Extracted == pc \in {"bind", "spawn", "recv"} /\ bundle # None

\* the file at `path` holds the bytes of the source s
HasFile(path, s) == path \in DOMAIN disk /\ disk[path] = Content(s)

\* the declared pairs: the sources of a mapping
Declared(files) == IF files = None THEN {} ELSE DOMAIN files[1]

\* C22: after packaging and extraction at startup, every declared
\* source -> target pair has a file with the source's bytes: at
\* extraction-root/target for a global file, at
\* extraction-root/process-cwd/target for a file of a process
C22_ExtractedUnderRoot ==
    Extracted =>
        /\ \A s \in Declared(source.files) :
              HasFile(Root \o source.files[1][s], s)
        /\ \A n \in Names : \A s \in Declared(source.pfiles[n]) :
              HasFile(Root \o CwdOf(source, n) \o source.pfiles[n][1][s], s)

\* the declared pairs of the capsule, each with the mapping it is in
AllDeclared ==
    {<<"", s>> : s \in Declared(source.files)}
    \cup UNION {{<<n, s>> : s \in Declared(source.pfiles[n])} : n \in Names}

\* C23: the serialized capsule has fs populated and non-empty if and only
\* if a files mapping, global or of a process, is non-empty; with no file
\* entries fs is absent
C23_FsIffFiles ==
    bundle # None =>
        ((bundle[1].fs # None /\ Records(bundle[1].fs[1]) > 0) <=> AllDeclared # {})

\* C23, amended: the serialized capsule always has fs populated with the
\* bytes of a finished archive, which are never empty; the archive holds one
\* entry, with the source's bytes, per declared pair, and none for a capsule
\* without file entries
C23_FsAlwaysSet ==
    bundle # None =>
        /\ bundle[1].fs # None
        /\ Records(bundle[1].fs[1]) > 0
        /\ Cardinality(DOMAIN bundle[1].fs[1]) = Cardinality(AllDeclared)
        /\ \A d \in AllDeclared :
              \E i \in DOMAIN bundle[1].fs[1] : bundle[1].fs[1][i] = Content(d[2])

C23_Witness ==
    /\ bundle # None
    /\ AllDeclared = {}
    /\ bundle[1].fs # None
    /\ DOMAIN bundle[1].fs[1] = {}

\* every file extract_files is to write is on the disk, with its bytes
ExtractionComplete ==
    /\ bundle # None
    /\ bundle[1].fs # None
    /\ \A x \in ExtractWrites(bundle[1], current_dir) :
          x[1] \in DOMAIN disk /\ disk[x[1]] = bundle[1].fs[1][x[2]]

\* this supervisor has written its port file
PortWritten == PortPath \in DOMAIN disk /\ disk[PortPath] = NewPort

\* C27: at startup every file is extracted and the port file is written
\* before the first child is spawned; a startup whose extraction failed has
\* ended with an error, has spawned no child and has written no port file
C27_ExtractThenPortThenSpawn ==
    /\ (pc \in {"spawn", "recv"} \/ DOMAIN table # {}) =>
          /\ ExtractionComplete
          /\ PortWritten
          /\ start_error = None
    /\ pc = "bind" => ExtractionComplete /\ ~PortWritten /\ DOMAIN table = {}
    /\ start_error # None =>
          /\ pc = "done"
          /\ DOMAIN table = {}
          /\ ~PortWritten

C27_Witness ==
    /\ DOMAIN table = Names
    /\ Declared(source.files) # {}
    /\ Declared(source.pfiles["a"]) # {}
    /\ ExtractionComplete
    /\ PortWritten

\* what a List response reports of process n
Reported(t, n) == ListResp(t[n])

\* a respawn the restart policy asked for: no forced restart was pending
PolicyRespawned(n) == Respawned(n) /\ ~table[n].force_restart

\* C24, as stated: for an on_failure process exiting non-zero, the reported
\* restarts counter never decreases and grows with every respawn, and the
\* reported status alternates between Running and Starting: a respawn takes
\* the process from Starting to Running
C24_RunningStartingAlternate ==
    [][\A n \in DOMAIN table :
        PolicyOf(table[n]) = "OnFailure" =>
            /\ Reported(table', n).restarts >= Reported(table, n).restarts
            /\ PolicyRespawned(n) =>
                  /\ Reported(table', n).restarts = Reported(table, n).restarts + 1
                  /\ Reported(table, n).status = Starting
                  /\ Reported(table', n).status = Running(table'[n].child.pid)]_vars

\* C24, amended: the reported counter never decreases and grows by one with
\* every respawn the policy asked for; such a respawn leaves the process
\* reported as Running with the new child's pid, and a process is reported
\* as Starting only once a Restart command for it was accepted
C24_CounterGrowsStatusRunning ==
    [][\A n \in DOMAIN table :
        PolicyOf(table[n]) = "OnFailure" =>
            /\ Reported(table', n).restarts >= Reported(table, n).restarts
            /\ PolicyRespawned(n) =>
                  /\ Reported(table', n).restarts = Reported(table, n).restarts + 1
                  /\ Reported(table', n).status = Running(table'[n].child.pid)
            /\ (Reported(table', n).status = Starting
                  /\ Reported(table, n).status # Starting) => AcceptedRestart(n)]_vars

\* the second cycle of an on_failure process: respawned from Running
C24_Witness ==
    \E n \in DOMAIN table :
        /\ PolicyOf(table[n]) = "OnFailure"
        /\ <<n, 1>> \in respawned
        /\ table[n].restarts = 2
        /\ table[n].status = Running(table[n].child.pid)

IsRunning(status) == status[1] = "Running"
IsExited(status) == status[1] = "Exited"

\* a step in which the dispatch handles a Kill{n} or a KillAll
KillHandled(n) ==
    \E c \in Clients : Handles(c, Kill(n)) \/ Handles(c, KillAll)

\* C25, as stated: a status becomes Running only from Starting, becomes
\* Exited or Killed only from Running, and becomes Starting only through a
\* Restart command
C25_StateMachine ==
    [][\A n \in DOMAIN table :
        table'[n].status # table[n].status =>
            /\ IsRunning(table'[n].status) => table[n].status = Starting
            /\ (IsExited(table'[n].status) \/ table'[n].status = Killed)
                  => IsRunning(table[n].status)
            /\ table'[n].status = Starting => AcceptedRestart(n)]_vars

\* C25, amended: a status becomes Running (of a new child) only by a respawn
\* in the reap loop, from Running or Starting; becomes Exited only in the
\* reap loop, from Running or Starting; becomes Killed only by a Kill or
\* KillAll, from any status; becomes Starting only by an accepted Restart,
\* from any status
C25_StatusChanges ==
    [][\A n \in DOMAIN table :
        table'[n].status # table[n].status =>
            /\ IsRunning(table'[n].status) =>
                  /\ ReapStep
                  /\ Respawned(n)
                  /\ table'[n].status = Running(table'[n].child.pid)
                  /\ IsRunning(table[n].status) \/ table[n].status = Starting
            /\ IsExited(table'[n].status) =>
                  /\ ReapStep
                  /\ IsRunning(table[n].status) \/ table[n].status = Starting
            /\ table'[n].status = Killed => KillHandled(n)
            /\ table'[n].status = Starting => AcceptedRestart(n)]_vars

\* a Kill was just answered Ok for a process that was Starting, its restart
\* still pending
C25_Witness ==
    \E n \in DOMAIN table, c \in Clients :
        /\ serviced = Some(<<c, Kill(n)>>)
        /\ sent = <<<<c, RespOk>>>>
        /\ table[n].status = Killed
        /\ table[n].force_restart

\* the fields of a table entry the reap loop may write
ReapFields(p) == <<p.status, p.child, p.restarts, p.force_restart, p.elapsed>>

\* C26: a pass of the reap loop leaves the status, child handle, restarts
\* counter, force_restart flag and start instant of a process unchanged when
\* less than its restart_delay (default 10 ms) has elapsed since its start
\* instant or when its child is still alive, also with a forced restart
\* pending
C26_ReapOnlyExitedAndDue ==
    [][ReapStep =>
        \A n \in DOMAIN table :
            LET p == table[n] IN
            (\/ p.elapsed < UnwrapOr(p.config.restart_delay, DefaultRestartDelay)
             \/ p.child.st \in {"alive", "dying"})
                => /\ n \in DOMAIN table'
                   /\ ReapFields(table'[n]) = ReapFields(p)]_vars

\* a pass of the reap loop has just gone over a process with a forced
\* restart pending whose child has exited but whose delay has not elapsed
C26_Witness ==
    /\ pc = "metrics"
    /\ \E n \in DOMAIN table :
        /\ table[n].force_restart
        /\ table[n].status = Starting
        /\ table[n].child.st \in {"zombie", "reaped"}
        /\ table[n].elapsed < UnwrapOr(table[n].config.restart_delay, DefaultRestartDelay)

\* a pass of the reap loop in which n's respawn is attempted and start_child
\* fails
SpawnFailed(n) ==
    /\ ReapStep
    /\ Spawns(table[n])
    /\ ~Respawned(n)

\* C28: a respawn attempt that fails to spawn leaves the status, the
\* restarts counter and the start instant as they were and the child handle
\* in place (the one try_wait has just reaped); the force_restart flag is
\* cleared, so the next pass of the reap loop attempts the respawn again
\* exactly if the restart policy asks for it: always after a policy-driven
\* attempt, and by policy alone after a forced one
C28_FailedRespawn ==
    [][\A n \in DOMAIN table :
        SpawnFailed(n) =>
            LET p == table[n]
                q == table'[n]
                status == TryWait(p.child)[1]
                byPolicy == \/ ~Success(status) /\ PolicyOf(p) = "OnFailure"
                            \/ PolicyOf(p) = "Always"
            IN  /\ q.status = p.status
                /\ q.child = Waited(p.child)
                /\ q.restarts = p.restarts
                /\ q.elapsed = p.elapsed
                /\ ~q.force_restart
                /\ Spawns(q) <=> byPolicy
                /\ ~p.force_restart => Spawns(q)]_vars

\* a pass of the reap loop has just failed to respawn a process whose
\* restart was forced: it is still Starting, its flag cleared, its old child
\* reaped
C28_Witness ==
    /\ pc = "metrics"
    /\ respawned = {}
    /\ \E n \in DOMAIN table :
        /\ table[n].status = Starting
        /\ ~table[n].force_restart
        /\ table[n].child.st = "reaped"

\* C29: a Kill{n} answered Ok for a process whose forced restart is pending
\* sets it Killed (as a KillAll does when its kill succeeds); a Killed
\* process is not respawned, whatever its force_restart flag, and leaves
\* Killed only by another accepted Restart{n}
C29_KillOverridesPendingRestart ==
    [][\A n \in DOMAIN table :
        /\ (/\ table[n].force_restart
            /\ table[n].status = Starting
            /\ \E c \in Clients : Handles(c, Kill(n)) /\ sent' = <<<<c, RespOk>>>>)
              => table'[n].status = Killed
        /\ (/\ table[n].force_restart
            /\ \E c \in Clients : Handles(c, KillAll))
              => table'[n].status \in {Killed, table[n].status}
        /\ table[n].status = Killed
              => /\ ~Respawned(n)
                 /\ table'[n].status # Killed => AcceptedRestart(n)]_vars

\* a pass of the reap loop has just gone over a Killed process whose forced
\* restart is still pending, its child reaped and its delay elapsed
C29_Witness ==
    /\ pc = "metrics"
    /\ \E n \in DOMAIN table :
        /\ table[n].status = Killed
        /\ table[n].force_restart
        /\ table[n].child.st = "reaped"
        /\ table[n].elapsed >= UnwrapOr(table[n].config.restart_delay, DefaultRestartDelay)

\* C30: the initial spawn pass inserts a declared process exactly when its
\* start_child succeeded; once the pass has ended no step adds or removes a
\* name of the table, and a Kill or Restart naming a declared process whose
\* initial spawn failed is answered Error(ProcessNotFound) and changes
\* nothing
C30_TableNamesFixed ==
    [][/\ DOMAIN table \subseteq Names \ todo
       /\ pc = "spawn" =>
             \/ DOMAIN table' = DOMAIN table
             \/ \E name \in todo \ todo' :
                   /\ DOMAIN table' = DOMAIN table \cup {name}
                   /\ table'[name].child.st = "alive"
                   /\ table'[name].status = Running(table'[name].child.pid)
       /\ pc # "spawn" => DOMAIN table' = DOMAIN table
       /\ \A n \in Names \ DOMAIN table, c \in Clients :
             (Handles(c, Kill(n)) \/ Handles(c, Restart(n)))
                => /\ sent' = <<<<c, RespError(ProcessNotFound(n))>>>>
                   /\ table' = table]_vars

\* a Restart naming a declared process whose initial spawn failed has just
\* been answered ProcessNotFound, beside a process that was started
C30_Witness ==
    \E n \in Names \ DOMAIN table, c \in Clients :
        /\ pc = "reap"
        /\ serviced = Some(<<c, Restart(n)>>)
        /\ sent = <<<<c, RespError(ProcessNotFound(n))>>>>
        /\ DOMAIN table # {}

\* every Running(pid) of the table carries the pid of the entry's child handle
RunningIsChild(t) ==
    \A n \in DOMAIN t : IsRunning(t[n].status) => t[n].status = Running(t[n].child.pid)

\* C31: in every state a process whose status is Running(pid) has the pid of
\* the child handle stored for it; after the initial spawn pass a handle is
\* replaced only by a successful respawn of the reap loop, which sets the
\* status Running of the new handle's pid with it, and the initial spawn
\* inserts an entry whose status and handle agree
C31_RunningPidIsChild ==
    [][/\ RunningIsChild(table)
       /\ RunningIsChild(table')
       /\ \A n \in DOMAIN table :
             /\ table'[n].child.pid # table[n].child.pid => Respawned(n)
             /\ Respawned(n) =>
                   /\ ReapStep
                   /\ table'[n].status = Running(table'[n].child.pid)
       /\ \A n \in DOMAIN table' \ DOMAIN table :
             /\ pc = "spawn"
             /\ table'[n].status = Running(table'[n].child.pid)]_vars

\* a forced respawn has just given a process a new child beside another
\* running process: both are Running with their own handle's pid
C31_Witness ==
    \E n, m \in DOMAIN table :
        /\ n # m
        /\ pc = "metrics"
        /\ <<n, 0>> \in respawned
        /\ table[n].child.st = "alive"
        /\ table[n].status = Running(table[n].child.pid)
        /\ table[m].status = Running(table[m].child.pid)
        /\ table[n].child.pid # table[m].child.pid

====
